---- MODULE Spec2Model ----
(***************************************************************************)
(* A model of packerpy's protocol envelope (protocols/protocol.py), the    *)
(* byte-aligned message codec under it (protocols/message.py) and the      *)
(* reactive layer (scheduler, auto-reply) on top of it.                    *)
(*                                                                         *)
(* Bytes are the integers 0..255 and a bytes object is a sequence of them. *)
(* A message instance is a record [cls, attrs]; attrs maps the names of    *)
(* the attributes that are set to their values.                            *)
(***************************************************************************)
EXTENDS Integers, Sequences, FiniteSets, TLC

\* ------------------------------------------------------------------------
\* Bounds of the model (not program constants)
\* ------------------------------------------------------------------------
\* longest payload of a `bytes` field among the modelled instances
MaxPayload == 7
\* number of schedules a protocol may issue in one run
MaxSchedules == 2
\* number of auto-reply registrations in one run
MaxReplies == 2
\* number of fields of a bit-packed layout
MaxBitFields == 3
\* the longest cache entry built up before a clear is called
MaxCached == 2

\* ------------------------------------------------------------------------
\* Python slicing and integer conversion
\* ------------------------------------------------------------------------
Min(a, b) == IF a < b THEN a ELSE b

\* data[a:b] with 0-based, clipped indices
Slice(s, a, b) == IF a >= Min(b, Len(s)) THEN <<>> ELSE SubSeq(s, a + 1, Min(b, Len(s)))

\* data[a:]
Drop(s, a) == Slice(s, a, Len(s))

RECURSIVE Reverse(_)
Reverse(s) == IF s = <<>> THEN <<>> ELSE Reverse(Tail(s)) \o <<Head(s)>>

RECURSIVE Pow256(_)
Pow256(n) == IF n = 0 THEN 1 ELSE 256 * Pow256(n - 1)

\* big-endian two's-complement digits of v in n bytes (\div floors, % is >= 0)
RECURSIVE Digits(_, _)
Digits(v, n) == IF n = 0 THEN <<>> ELSE Digits(v \div 256, n - 1) \o <<v % 256>>

\* whether v fits n bytes; every modelled integer is below 2^31, so four or
\* more bytes hold any signed value and any non-negative unsigned one
Fits(v, n, signed) ==
    IF n >= 4 THEN (signed \/ v >= 0)
    ELSE IF signed THEN v >= 0 - (Pow256(n) \div 2) /\ v <= (Pow256(n) \div 2) - 1
    ELSE v >= 0 /\ v <= Pow256(n) - 1

\* int.to_bytes(n, byteorder, signed=...): OverflowError when v does not fit
ToBytes(v, n, byteorder, signed) ==
    LET be == Digits(v, n)
    IN IF ~Fits(v, n, signed)
         THEN [ok |-> FALSE, bytes |-> <<>>, err |-> "OverflowError"]
         ELSE [ok |-> TRUE, bytes |-> IF byteorder = "little" THEN Reverse(be) ELSE be,
               err |-> ""]

RECURSIVE FoldBE(_, _)
FoldBE(acc, bs) == IF bs = <<>> THEN acc ELSE FoldBE(acc * 256 + Head(bs), Tail(bs))

\* int.from_bytes(bs, byteorder, signed=...); the sign is taken from the
\* most significant byte so that the fold stays inside the value's range
FromBytes(bs, byteorder, signed) ==
    LET be == IF byteorder = "little" THEN Reverse(bs) ELSE bs
    IN IF be = <<>> THEN 0
       ELSE IF signed /\ Head(be) >= 128
              THEN FoldBE(Head(be) - 256, Tail(be))
              ELSE FoldBE(0, be)

\* ------------------------------------------------------------------------
\* Unsigned 32-bit words as two 16-bit limbs <<hi, lo>> (hi*65536 + lo)
\* ------------------------------------------------------------------------
ToWide(n) == <<n \div 65536, n % 65536>>

RECURSIVE Xor(_, _)
Xor(a, b) == IF a = 0 THEN b
             ELSE IF b = 0 THEN a
             ELSE ((a + b) % 2) + 2 * Xor(a \div 2, b \div 2)

WXor(x, y) == <<Xor(x[1], y[1]), Xor(x[2], y[2])>>

WShr1(x) == <<x[1] \div 2, (x[2] \div 2) + (x[1] % 2) * 32768>>

\* the reflected CRC-32 polynomial 0xEDB88320
CrcPoly == <<60856, 33568>>

CrcBit(c) == IF c[2] % 2 = 1 THEN WXor(WShr1(c), CrcPoly) ELSE WShr1(c)

\* c after k more shift steps
RECURSIVE CrcBits(_, _)
CrcBits(c, k) ==
    IF k = 0 THEN c
    ELSE LET n == CrcBit(c) IN IF n[1] >= 0 THEN CrcBits(n, k - 1) ELSE n

\* zlib's table of the register after eight shift steps, by low byte
CrcTable == [i \in 0..255 |-> CrcBits(<<0, i>>, 8)]

WShr8(x) == <<x[1] \div 256, (x[2] \div 256) + (x[1] % 256) * 256>>

CrcByte(c, b) == WXor(CrcTable[Xor(c[2] % 256, b)], WShr8(c))

RECURSIVE CrcFold(_, _)
CrcFold(c, data) ==
    IF data = <<>> THEN c
    ELSE LET n == CrcByte(c, Head(data)) IN IF n[1] >= 0 THEN CrcFold(n, Tail(data)) ELSE n

\* Protocol.crc32: zlib.crc32(data, 0) & 0xFFFFFFFF
crc32(data) == WXor(CrcFold(<<65535, 65535>>, data), <<65535, 65535>>)

\* the big-endian bytes of a word
WideDigits(w) == <<w[1] \div 256, w[1] % 256, w[2] \div 256, w[2] % 256>>

\* value.to_bytes(n, byteorder, signed=False) of a word, n <= 4
WideToBytes(w, n, byteorder) ==
    LET d == WideDigits(w)
        fits == \A i \in 1..(4 - n) : d[i] = 0
        be == SubSeq(d, 5 - n, 4)
    IN IF ~fits THEN [ok |-> FALSE, bytes |-> <<>>, err |-> "OverflowError"]
       ELSE [ok |-> TRUE, bytes |-> IF byteorder = "little" THEN Reverse(be) ELSE be,
             err |-> ""]

\* int.from_bytes(bs, byteorder, signed=False) of at most 4 bytes, as a word
WideFromBytes(bs, byteorder) ==
    LET be  == IF byteorder = "little" THEN Reverse(bs) ELSE bs
        pad == [i \in 1..(4 - Len(be)) |-> 0] \o be
    IN <<pad[1] * 256 + pad[2], pad[3] * 256 + pad[4]>>

\* ------------------------------------------------------------------------
\* Message classes: Message.fields, Message.encoding
\* ------------------------------------------------------------------------
\* a field specification with no option set; for a field whose type is a
\* MessagePartial class, partial is that class and deep_path/deep_length_of
\* hold a key such as "header.payload_length": {"length_of": "payload"}
F(name, type, bits) ==
    [name |-> name, type |-> type, bits |-> bits,
     hasStatic |-> FALSE, static |-> 0,
     condition |-> "none",
     array |-> "none", numlist |-> 0, numref |-> "", delimiter |-> <<>>,
     length_of |-> "",
     partial |-> "", deep_path |-> "", deep_length_of |-> "",
     signed |-> FALSE]

\* the message classes of the model: S is the tests' SimpleMessage, L holds
\* a bytes payload, M starts with a static magic number, B holds a bool,
\* D a delimiter-terminated list, C a conditional field, N a counted list,
\* U is a class that is never registered; K, used with the codec alone, has
\* a conditional field that is also static, T a composite field `header` of
\* the partial class H with a deep assignment
ClassNames == {"S", "L", "M", "B", "D", "C", "N", "U"}

Fields(cls) ==
    CASE cls = "S" -> << F("value", "int", 32) >>
      [] cls = "L" -> << F("s", "bytes", 0) >>
      [] cls = "M" -> << [F("magic", "uint", 16) EXCEPT !.hasStatic = TRUE, !.static = 4660],
                         F("v", "uint", 8) >>
      [] cls = "B" -> << F("flag", "bool", 0), F("v", "uint", 8) >>
      [] cls = "D" -> << [F("xs", "uint", 8) EXCEPT !.array = "delimiter",
                                                     !.delimiter = <<1>>] >>
      [] cls = "C" -> << F("has_extra", "bool", 0),
                         [F("extra", "uint", 16) EXCEPT !.condition = "has_extra"] >>
      [] cls = "N" -> << [F("n", "uint", 8) EXCEPT !.length_of = "xs"],
                         [F("xs", "uint", 8) EXCEPT !.array = "numlist", !.numref = "n"] >>
      [] cls = "U" -> << F("v", "uint", 8) >>
      [] cls = "K" -> << F("has_extra", "bool", 0),
                         [F("marker", "uint", 8) EXCEPT !.hasStatic = TRUE, !.static = 170,
                                                        !.condition = "has_extra"],
                         F("basic", "uint", 8) >>
      [] cls = "T" -> << [F("header", "partial", 0) EXCEPT !.partial = "H",
                                                           !.deep_path = "payload_length",
                                                           !.deep_length_of = "payload"],
                         F("payload", "bytes", 0) >>
      [] cls = "H" -> << F("version", "uint", 8), F("payload_length", "uint", 8) >>

\* cls.encoding.value
Encoding(cls) == IF cls = "N" THEN "little" ELSE "big"

\* cls.__name__.encode("utf-8")
TypeBytes(cls) ==
    CASE cls = "S" -> <<83>> [] cls = "L" -> <<76>> [] cls = "M" -> <<77>>
      [] cls = "B" -> <<66>> [] cls = "D" -> <<68>> [] cls = "C" -> <<67>>
      [] cls = "N" -> <<78>> [] cls = "U" -> <<85>>

\* bytes.decode("utf-8") of a type name, as far as the registry can tell
\* names apart: a byte above 0x7F never stands alone in UTF-8, a name of
\* ASCII bytes that no class has is kept as the text "?"
DecodeTypeName(bs) ==
    IF \E i \in 1..Len(bs) : bs[i] >= 128
      THEN [ok |-> FALSE, name |-> "", err |-> "UnicodeDecodeError"]
    ELSE IF \E c \in ClassNames : TypeBytes(c) = bs
      THEN [ok |-> TRUE, name |-> CHOOSE c \in ClassNames : TypeBytes(c) = bs, err |-> ""]
    ELSE [ok |-> TRUE, name |-> "?", err |-> ""]

EmptyAttrs == [n \in {} |-> 0]

SetAttr(attrs, name, value) ==
    [n \in DOMAIN attrs \cup {name} |-> IF n = name THEN value ELSE attrs[n]]

IsComputed(fs) == fs.length_of # ""

\* Message.__init__: a static field always takes its constant, any other
\* declared field is set when it is among the keyword arguments
Construct(cls, kwargs) ==
    LET fs == Fields(cls)
        names == {fs[i].name : i \in {j \in 1..Len(fs) :
                                        fs[j].hasStatic \/ fs[j].name \in DOMAIN kwargs}}
        spec(n) == fs[CHOOSE i \in 1..Len(fs) : fs[i].name = n]
    IN [cls |-> cls,
        attrs |-> [n \in names |-> IF spec(n).hasStatic THEN spec(n).static ELSE kwargs[n]]]

\* Message.validate: every field that is neither computed nor conditional is set
validate(m) ==
    \A i \in 1..Len(Fields(m.cls)) :
        LET fs == Fields(m.cls)[i]
        IN (IsComputed(fs) \/ fs.condition # "none") \/ fs.name \in DOMAIN m.attrs

\* a field's condition callable applied to an object with the given attributes
\* ("has_extra" is lambda msg: hasattr(msg, "has_extra") and msg.has_extra)
EvalCondition(cond, attrs) ==
    CASE cond = "has_extra" -> "has_extra" \in DOMAIN attrs /\ attrs["has_extra"]
      [] OTHER -> TRUE

\* ------------------------------------------------------------------------
\* Message codec, byte-aligned mode (protocols/message.py)
\* ------------------------------------------------------------------------
Raised(e) == [ok |-> FALSE, bytes |-> <<>>, err |-> e]

RECURSIVE SerializeValue(_, _, _)

\* MessagePartial.serialize_bytes, byte-aligned, from field i on; the
\* partial's _serialize_value has the branches of the message's
RECURSIVE SerializePartial(_, _)
SerializePartial(p, i) ==
    LET join(one, rest) ==
          IF ~one.ok THEN one
          ELSE IF ~rest.ok THEN rest
          ELSE [ok |-> TRUE, bytes |-> one.bytes \o rest.bytes, err |-> ""]
        field(fs) ==
          IF fs.name \notin DOMAIN p.attrs THEN Raised("AttributeError")
          ELSE join(SerializeValue(p.attrs[fs.name], fs, Encoding(p.cls)),
                    SerializePartial(p, i + 1))
    IN IF i > Len(Fields(p.cls)) THEN [ok |-> TRUE, bytes |-> <<>>, err |-> ""]
       ELSE field(Fields(p.cls)[i])

\* Message._serialize_value
SerializeValue(value, fs, byteorder) ==
    CASE fs.type = "partial" ->
              IF value.cls # fs.partial THEN Raised("ValueError: expected partial")
              ELSE SerializePartial(value, 1)
      [] fs.type = "int"   -> ToBytes(value, fs.bits \div 8, byteorder, TRUE)
      [] fs.type = "uint"  -> ToBytes(value, fs.bits \div 8, byteorder, FALSE)
      [] fs.type = "bool"  -> [ok |-> TRUE, bytes |-> <<IF value THEN 1 ELSE 0>>, err |-> ""]
      [] fs.type = "bytes" -> [ok |-> TRUE,
                               bytes |-> ToBytes(Len(value), 4, byteorder, FALSE).bytes \o value,
                               err |-> ""]
      [] OTHER -> Raised("ValueError: unsupported type")

\* the loops `for item in value: result += self._serialize_value(item, ...)`;
\* sep is written between the items (the delimiter form) or is empty
RECURSIVE SerializeItems(_, _, _, _, _)
SerializeItems(items, i, fs, byteorder, sep) ==
    LET join(one, rest) ==
          IF ~one.ok THEN one
          ELSE IF ~rest.ok THEN rest
          ELSE [ok |-> TRUE,
                bytes |-> (IF i > 1 THEN sep ELSE <<>>) \o one.bytes \o rest.bytes,
                err |-> ""]
    IN IF i > Len(items) THEN [ok |-> TRUE, bytes |-> <<>>, err |-> ""]
       ELSE join(SerializeValue(items[i], fs, byteorder),
                 SerializeItems(items, i + 1, fs, byteorder, sep))

\* Message._compute_field_value, the length_of source
ComputeFieldValue(attrs, fs) ==
    IF fs.length_of \notin DOMAIN attrs
      THEN [ok |-> FALSE, value |-> 0, err |-> "ValueError: referenced field does not exist"]
      ELSE [ok |-> TRUE, value |-> Len(attrs[fs.length_of]), err |-> ""]

\* the array and scalar forms of one field of Message.serialize_bytes
SerializeForm(value, attrs2, fs, byteorder) ==
    LET count == IF fs.numref # "" THEN attrs2[fs.numref] ELSE fs.numlist
        prefixed(r) ==
          IF ~r.ok THEN r
          ELSE [r EXCEPT !.bytes = ToBytes(Len(value), 4, byteorder, FALSE).bytes \o r.bytes]
        closed(r) == IF ~r.ok THEN r ELSE [r EXCEPT !.bytes = r.bytes \o fs.delimiter]
    IN CASE fs.array = "numlist" ->
              IF fs.numref # "" /\ fs.numref \notin DOMAIN attrs2
                THEN Raised("ValueError: referenced field does not exist")
              ELSE IF Len(value) # count
                THEN Raised("ValueError: wrong number of elements")
              ELSE SerializeItems(value, 1, fs, byteorder, <<>>)
         [] fs.array = "dynamic" ->
              prefixed(SerializeItems(value, 1, fs, byteorder, <<>>))
         [] fs.array = "delimiter" ->
              closed(SerializeItems(value, 1, fs, byteorder, fs.delimiter))
         [] OTHER -> SerializeValue(value, fs, byteorder)

\* one iteration of the field loop of Message.serialize_bytes: the bytes the
\* field adds and the attributes after the computed value is written back
SerializeField(attrs, fs, byteorder) ==
    LET skip == fs.condition # "none" /\ ~EvalCondition(fs.condition, attrs)
        emit(out, attrs2) ==
          [ok |-> out.ok, bytes |-> out.bytes, attrs |-> attrs2, err |-> out.err]
        write(value, attrs2) == emit(SerializeForm(value, attrs2, fs, byteorder), attrs2)
        field(comp) ==
          IF skip THEN [ok |-> TRUE, bytes |-> <<>>, attrs |-> attrs, err |-> ""]
          ELSE IF fs.hasStatic THEN write(fs.static, attrs)
          ELSE IF IsComputed(fs)
            THEN IF ~comp.ok
                   THEN [ok |-> FALSE, bytes |-> <<>>, attrs |-> attrs, err |-> comp.err]
                   ELSE write(comp.value, SetAttr(attrs, fs.name, comp.value))
          ELSE IF fs.name \notin DOMAIN attrs
            THEN [ok |-> FALSE, bytes |-> <<>>, attrs |-> attrs, err |-> "AttributeError"]
          ELSE write(attrs[fs.name], attrs)
    IN field(ComputeFieldValue(attrs, fs))

RECURSIVE SerializeFrom(_, _, _, _)
SerializeFrom(cls, attrs, i, byteorder) ==
    LET append(one, rest) ==
          IF ~rest.ok THEN rest ELSE [rest EXCEPT !.bytes = one.bytes \o rest.bytes]
        next(one) ==
          IF ~one.ok THEN one
          ELSE append(one, SerializeFrom(cls, one.attrs, i + 1, byteorder))
    IN IF i > Len(Fields(cls)) THEN [ok |-> TRUE, bytes |-> <<>>, attrs |-> attrs, err |-> ""]
       ELSE next(SerializeField(attrs, Fields(cls)[i], byteorder))

\* Message.serialize_bytes: [ok, bytes, attrs, err]; attrs is the instance
\* after the call (computed values are written back onto it)
serialize_bytes(m) == SerializeFrom(m.cls, m.attrs, 1, Encoding(m.cls))

Insufficient == [ok |-> FALSE, value |-> 0, consumed |-> 0, err |-> "ValueError: insufficient data"]

RECURSIVE DeserializeValue(_, _, _)

\* MessagePartial.deserialize_bytes, byte-aligned, from field i on:
\* [ok, value, consumed, err], value being the partial built from kwargs
RECURSIVE DeserializePartial(_, _, _, _, _)
DeserializePartial(cls, data, i, offset, kwargs) ==
    LET next(fs, one) ==
          IF ~one.ok THEN one
          ELSE DeserializePartial(cls, data, i + 1, offset + one.consumed,
                                  SetAttr(kwargs, fs.name, one.value))
    IN IF i > Len(Fields(cls))
         THEN [ok |-> TRUE, value |-> [cls |-> cls, attrs |-> kwargs], consumed |-> offset,
               err |-> ""]
         ELSE next(Fields(cls)[i],
                   DeserializeValue(Drop(data, offset), Fields(cls)[i], Encoding(cls)))

\* Message._deserialize_value: [ok, value, consumed, err]
DeserializeValue(data, fs, byteorder) ==
    LET size == fs.bits \div 8
        length == FromBytes(Slice(data, 0, 4), byteorder, FALSE)
    IN CASE fs.type = "partial" -> DeserializePartial(fs.partial, data, 1, 0, EmptyAttrs)
         [] fs.type \in {"int", "uint"} ->
              IF Len(data) < size THEN Insufficient
              ELSE [ok |-> TRUE,
                    value |-> FromBytes(Slice(data, 0, size), byteorder, fs.type = "int"),
                    consumed |-> size, err |-> ""]
         [] fs.type = "bool" ->
              IF Len(data) < 1 THEN Insufficient
              ELSE [ok |-> TRUE, value |-> (data[1] # 0), consumed |-> 1, err |-> ""]
         [] fs.type = "bytes" ->
              IF Len(data) < 4 THEN Insufficient
              ELSE IF Len(data) < 4 + length THEN Insufficient
              ELSE [ok |-> TRUE, value |-> Slice(data, 4, 4 + length),
                    consumed |-> 4 + length, err |-> ""]
         [] OTHER -> [ok |-> FALSE, value |-> 0, consumed |-> 0,
                      err |-> "ValueError: unsupported type"]

\* the loops `for _ in range(n): value, consumed = cls._deserialize_value(...)`
RECURSIVE DeserializeItems(_, _, _, _, _)
DeserializeItems(data, offset, n, fs, byteorder) ==
    LET cons(one, rest) ==
          IF ~rest.ok THEN rest ELSE [rest EXCEPT !.value = <<one.value>> \o rest.value]
        next(one) ==
          IF ~one.ok THEN one
          ELSE cons(one, DeserializeItems(data, offset + one.consumed, n - 1, fs, byteorder))
    IN IF n <= 0 THEN [ok |-> TRUE, value |-> <<>>, consumed |-> offset, err |-> ""]
       ELSE next(DeserializeValue(Drop(data, offset), fs, byteorder))

\* the look-ahead of the delimiter loop: another element followed by a
\* delimiter starts at off2; a look-ahead that raises is swallowed
MoreDelimited(data, off2, fs, byteorder) ==
    LET dl == Len(fs.delimiter)
        follows(peek) ==
          /\ peek.ok
          /\ off2 + peek.consumed + dl <= Len(data)
          /\ Slice(data, off2 + peek.consumed, off2 + peek.consumed + dl) = fs.delimiter
    IN /\ off2 < Len(data)
       /\ follows(DeserializeValue(Drop(data, off2), fs, byteorder))

\* the `while True` loop of the delimiter form: one element, its delimiter,
\* then the look-ahead for another element
RECURSIVE DeserializeDelimited(_, _, _, _)
DeserializeDelimited(data, offset, fs, byteorder) ==
    LET dl == Len(fs.delimiter)
        cons(one, rest) ==
          IF ~rest.ok THEN rest ELSE [rest EXCEPT !.value = <<one.value>> \o rest.value]
        element(one, off1, off2) ==
          IF ~one.ok THEN one
          ELSE IF off1 + dl > Len(data)
            THEN [ok |-> FALSE, value |-> 0, consumed |-> 0,
                  err |-> "ValueError: missing delimiter at end of array"]
          ELSE IF Slice(data, off1, off1 + dl) # fs.delimiter
            THEN [ok |-> FALSE, value |-> 0, consumed |-> 0,
                  err |-> "ValueError: expected delimiter"]
          ELSE IF MoreDelimited(data, off2, fs, byteorder)
            THEN cons(one, DeserializeDelimited(data, off2, fs, byteorder))
          ELSE [ok |-> TRUE, value |-> <<one.value>>, consumed |-> off2, err |-> ""]
        step(one) == element(one, offset + one.consumed, offset + one.consumed + dl)
    IN step(DeserializeValue(Drop(data, offset), fs, byteorder))

\* one iteration of the field loop of Message.deserialize_bytes:
\* [ok, kwargs, offset, err]
DeserializeField(data, offset, kwargs, fs, byteorder) ==
    LET fail(e) == [ok |-> FALSE, kwargs |-> kwargs, offset |-> offset, err |-> e]
        skip == fs.condition # "none" /\ ~EvalCondition(fs.condition, kwargs)
        count == IF fs.numref # "" THEN kwargs[fs.numref] ELSE fs.numlist
        static(one) ==
          IF ~one.ok THEN fail(one.err)
          ELSE IF one.value # fs.static THEN fail("ValueError: expected static value")
          ELSE [ok |-> TRUE, kwargs |-> SetAttr(kwargs, fs.name, fs.static),
                offset |-> offset + one.consumed, err |-> ""]
        array(arr) ==
          IF ~arr.ok THEN fail(arr.err)
          ELSE [ok |-> TRUE, kwargs |-> SetAttr(kwargs, fs.name, arr.value),
                offset |-> arr.consumed, err |-> ""]
        scalar(one) ==
          IF ~one.ok THEN fail(one.err)
          ELSE [ok |-> TRUE, kwargs |-> SetAttr(kwargs, fs.name, one.value),
                offset |-> offset + one.consumed, err |-> ""]
        field(one) ==
          IF fs.hasStatic THEN static(one)
          ELSE IF skip THEN [ok |-> TRUE, kwargs |-> kwargs, offset |-> offset, err |-> ""]
          ELSE IF fs.array = "numlist"
            THEN IF fs.numref # "" /\ fs.numref \notin DOMAIN kwargs
                   THEN fail("ValueError: reference has not been parsed yet")
                   ELSE array(DeserializeItems(data, offset, count, fs, byteorder))
          ELSE IF fs.array = "dynamic"
            THEN IF Len(data) < offset + 4
                   THEN fail("ValueError: insufficient data for array length")
                   ELSE array(DeserializeItems(data, offset + 4,
                                  FromBytes(Slice(data, offset, offset + 4), byteorder, FALSE),
                                  fs, byteorder))
          ELSE IF fs.array = "delimiter"
            THEN array(DeserializeDelimited(data, offset, fs, byteorder))
          ELSE scalar(one)
    IN field(DeserializeValue(Drop(data, offset), fs, byteorder))

RECURSIVE DeserializeFrom(_, _, _, _, _)
DeserializeFrom(cls, data, i, offset, kwargs) ==
    LET next(one) == IF ~one.ok THEN one
                     ELSE DeserializeFrom(cls, data, i + 1, one.offset, one.kwargs)
    IN IF i > Len(Fields(cls))
         THEN [ok |-> TRUE, kwargs |-> kwargs, offset |-> offset, err |-> ""]
         ELSE next(DeserializeField(data, offset, kwargs, Fields(cls)[i], Encoding(cls)))

\* Message.deserialize_bytes: [ok, msg, consumed, err]
deserialize_bytes(cls, data) ==
    LET done(r) ==
          IF r.ok THEN [ok |-> TRUE, msg |-> Construct(cls, r.kwargs), consumed |-> r.offset,
                        err |-> ""]
          ELSE [ok |-> FALSE, msg |-> Construct(cls, EmptyAttrs), consumed |-> 0,
                err |-> r.err]
    IN done(DeserializeFrom(cls, data, 1, 0, EmptyAttrs))

\* ------------------------------------------------------------------------
\* Bit packing (protocols/message_partial.py, protocols/message.py)
\* ------------------------------------------------------------------------
RECURSIVE Pow2(_)
Pow2(n) == IF n <= 0 THEN 1 ELSE 2 * Pow2(n - 1)

\* BitPackingContext.__init__
NewPacking == [bit_buffer |-> 0, bits_in_buffer |-> 0, output |-> <<>>]

\* the loop `while self.bits_in_buffer >= 8` of pack_bits
RECURSIVE FlushCompleteBytes(_)
FlushCompleteBytes(c) ==
    IF c.bits_in_buffer < 8 THEN c
    ELSE FlushCompleteBytes(
           [bit_buffer |-> c.bit_buffer % Pow2(c.bits_in_buffer - 8),
            bits_in_buffer |-> c.bits_in_buffer - 8,
            output |-> Append(c.output,
                              (c.bit_buffer \div Pow2(c.bits_in_buffer - 8)) % 256)])

\* a pack_bits that does not shift the buffer before adding the value
pack_bits_unshifted(c, value, bit_count) ==
    FlushCompleteBytes([bit_buffer |-> c.bit_buffer + (value % Pow2(bit_count)),
                        bits_in_buffer |-> c.bits_in_buffer + bit_count,
                        output |-> c.output])

\* BitPackingContext.pack_bits: the masked value is or-ed into the low
\* bits the shift has cleared
pack_bits(c, value, bit_count) ==
    FlushCompleteBytes([bit_buffer |-> c.bit_buffer * Pow2(bit_count)
                                         + (value % Pow2(bit_count)),
                        bits_in_buffer |-> c.bits_in_buffer + bit_count,
                        output |-> c.output])

\* a flush that forgets the bits of the last, incomplete byte
flush_complete_only(c) == c.output

\* BitPackingContext.flush
flush(c) ==
    IF c.bits_in_buffer > 0
      THEN Append(c.output, (c.bit_buffer * Pow2(8 - c.bits_in_buffer)) % 256)
      ELSE c.output

\* the validate-and-pack steps of one value of a bit field: [ok, ctx, err]
PackValue(c, value, fs) ==
    LET min_val == IF fs.signed THEN 0 - Pow2(fs.bits - 1) ELSE 0
        max_val == IF fs.signed THEN Pow2(fs.bits - 1) - 1 ELSE Pow2(fs.bits) - 1
    IN IF value < min_val \/ value > max_val
         THEN [ok |-> FALSE, ctx |-> c, err |-> "ValueError: value out of range"]
         ELSE [ok |-> TRUE,
               ctx |-> pack_bits(c, IF fs.signed /\ value < 0 THEN Pow2(fs.bits) + value
                                    ELSE value, fs.bits),
               err |-> ""]

\* `for item in value:` validate and pack
RECURSIVE PackItems(_, _, _, _)
PackItems(c, items, i, fs) ==
    LET next(one) == IF ~one.ok THEN one ELSE PackItems(one.ctx, items, i + 1, fs)
    IN IF i > Len(items) THEN [ok |-> TRUE, ctx |-> c, err |-> ""]
       ELSE next(PackValue(c, items[i], fs))

MixedModes == Raised("ValueError: cannot mix bitwise and byte-aligned fields")

\* the field loop of _serialize_bitwise from field i on. owner is "message"
\* or "partial": a message takes a static field's constant and rejects every
\* byte-aligned field; a partial rejects a byte-aligned field only when bits
\* are waiting in the buffer, and otherwise goes on to the next field
RECURSIVE SerializeBitwiseFrom(_, _, _, _, _)
SerializeBitwiseFrom(owner, fields, attrs, i, c) ==
    LET next(one) ==
          IF ~one.ok THEN Raised(one.err)
          ELSE SerializeBitwiseFrom(owner, fields, attrs, i + 1, one.ctx)
        field(fs, value) ==
          IF fs.array = "numlist" /\ fs.type = "bit"
            THEN IF Len(value) # fs.numlist
                   THEN Raised("ValueError: wrong number of elements")
                   ELSE next(PackItems(c, value, 1, fs))
          ELSE IF fs.type = "bit" THEN next(PackValue(c, value, fs))
          ELSE IF owner = "message" \/ c.bits_in_buffer > 0 THEN MixedModes
          ELSE SerializeBitwiseFrom(owner, fields, attrs, i + 1, c)
        read(fs) ==
          IF owner = "message" /\ fs.hasStatic THEN field(fs, fs.static)
          ELSE IF fs.name \notin DOMAIN attrs THEN Raised("AttributeError")
          ELSE field(fs, attrs[fs.name])
    IN IF i > Len(fields) THEN [ok |-> TRUE, bytes |-> flush(c), err |-> ""]
       ELSE read(fields[i])

\* MessagePartial._serialize_bitwise
PartialSerializeBitwise(fields, attrs) ==
    SerializeBitwiseFrom("partial", fields, attrs, 1, NewPacking)

\* Message._serialize_bitwise
MessageSerializeBitwise(fields, attrs) ==
    SerializeBitwiseFrom("message", fields, attrs, 1, NewPacking)

\* BitUnpackingContext.__init__
NewUnpacking == [bit_buffer |-> 0, bits_in_buffer |-> 0, byte_offset |-> 0]

\* BitUnpackingContext.unpack_bits: [ok, value, ctx, err]
RECURSIVE unpack_bits(_, _, _)
unpack_bits(data, u, bit_count) ==
    IF u.bits_in_buffer < bit_count
      THEN IF u.byte_offset >= Len(data)
             THEN [ok |-> FALSE, value |-> 0, ctx |-> u,
                   err |-> "ValueError: insufficient data for bit unpacking"]
             ELSE unpack_bits(data,
                              [bit_buffer |-> u.bit_buffer * 256 + data[u.byte_offset + 1],
                               bits_in_buffer |-> u.bits_in_buffer + 8,
                               byte_offset |-> u.byte_offset + 1],
                              bit_count)
      ELSE [ok |-> TRUE,
            value |-> (u.bit_buffer \div Pow2(u.bits_in_buffer - bit_count)) % Pow2(bit_count),
            ctx |-> [bit_buffer |-> u.bit_buffer % Pow2(u.bits_in_buffer - bit_count),
                     bits_in_buffer |-> u.bits_in_buffer - bit_count,
                     byte_offset |-> u.byte_offset],
            err |-> ""]

\* unpack one value of a bit field and convert it to signed if needed
UnpackValue(data, u, fs) ==
    LET signed(one) ==
          IF one.ok /\ fs.signed /\ one.value >= Pow2(fs.bits - 1)
            THEN [one EXCEPT !.value = one.value - Pow2(fs.bits)]
            ELSE one
    IN signed(unpack_bits(data, u, fs.bits))

\* `for _ in range(array_size):` unpack; value is the list
RECURSIVE UnpackItems(_, _, _, _)
UnpackItems(data, u, n, fs) ==
    LET cons(one, rest) ==
          IF ~rest.ok THEN rest ELSE [rest EXCEPT !.value = <<one.value>> \o rest.value]
        next(one) == IF ~one.ok THEN one ELSE cons(one, UnpackItems(data, one.ctx, n - 1, fs))
    IN IF n <= 0 THEN [ok |-> TRUE, value |-> <<>>, ctx |-> u, err |-> ""]
       ELSE next(UnpackValue(data, u, fs))

\* the field loop of _deserialize_bitwise from field i on:
\* [ok, kwargs, consumed, err]
RECURSIVE DeserializeBitwiseFrom(_, _, _, _, _, _)
DeserializeBitwiseFrom(owner, fields, data, i, u, kwargs) ==
    LET fail(e) == [ok |-> FALSE, kwargs |-> kwargs, consumed |-> 0, err |-> e]
        store(fs, one) ==
          IF ~one.ok THEN fail(one.err)
          ELSE DeserializeBitwiseFrom(owner, fields, data, i + 1, one.ctx,
                                      SetAttr(kwargs, fs.name, one.value))
        static(fs, one) ==
          IF ~one.ok THEN fail(one.err)
          ELSE IF one.value # fs.static THEN fail("ValueError: expected static value")
          ELSE DeserializeBitwiseFrom(owner, fields, data, i + 1, one.ctx,
                                      SetAttr(kwargs, fs.name, fs.static))
        field(fs) ==
          IF owner = "message" /\ fs.hasStatic
            THEN IF fs.type = "bit" THEN static(fs, UnpackValue(data, u, fs))
                 ELSE fail("ValueError: static values in bitwise mode only support bit")
          ELSE IF fs.array = "numlist" /\ fs.type = "bit"
            THEN store(fs, UnpackItems(data, u, fs.numlist, fs))
          ELSE IF fs.type = "bit" THEN store(fs, UnpackValue(data, u, fs))
          ELSE fail(MixedModes.err)
    IN IF i > Len(fields)
         THEN [ok |-> TRUE, kwargs |-> kwargs, consumed |-> u.byte_offset, err |-> ""]
         ELSE field(fields[i])

\* MessagePartial._deserialize_bitwise
PartialDeserializeBitwise(fields, data) ==
    DeserializeBitwiseFrom("partial", fields, data, 1, NewUnpacking, EmptyAttrs)

\* Message._deserialize_bitwise
MessageDeserializeBitwise(fields, data) ==
    DeserializeBitwiseFrom("message", fields, data, 1, NewUnpacking, EmptyAttrs)

\* _has_bitwise_fields
HasBitwiseFields(fields) == \E i \in 1..Len(fields) : fields[i].type = "bit"

\* ------------------------------------------------------------------------
\* Protocol envelope (protocols/protocol.py)
\* ------------------------------------------------------------------------
\* `if len(message_data_body) < 10:  # Arbitrary threshold`
IncompleteThreshold == 10

\* an automatic header/footer field; its values are 32-bit words
A(name, type, bits, kind, static) ==
    [name |-> name, type |-> type, bits |-> bits, kind |-> kind, static |-> static]

\* {"crc": {"type": "uint(32)", "compute": lambda msg: Protocol.crc32(msg.serialize_bytes())}}
CrcFooter == << A("crc", "uint", 32, "crc32", <<0, 0>>) >>

\* {"size": {"type": "uint(16)", "size_of": "body"}}
SizeHeader == << A("size", "uint", 16, "size_of_body", <<0, 0>>) >>

\* Protocol._compute_auto_field_value
ComputeAutoFieldValue(fs, message_bytes) ==
    CASE fs.kind = "static"       -> fs.static
      [] fs.kind = "size_of_body" -> ToWide(Len(message_bytes))
      [] fs.kind = "crc32"        -> crc32(message_bytes)

\* Protocol._serialize_auto_fields
RECURSIVE SerializeAutoFields(_, _, _, _)
SerializeAutoFields(fields, i, message_bytes, byteorder) ==
    LET join(one, rest) ==
          IF ~one.ok THEN one
          ELSE IF ~rest.ok THEN rest
          ELSE [rest EXCEPT !.bytes = one.bytes \o rest.bytes]
    IN IF i > Len(fields) THEN [ok |-> TRUE, bytes |-> <<>>, err |-> ""]
       ELSE join(WideToBytes(ComputeAutoFieldValue(fields[i], message_bytes),
                             fields[i].bits \div 8, byteorder),
                 SerializeAutoFields(fields, i + 1, message_bytes, byteorder))

\* Protocol.encode: [ok, bytes, err]
encode(registry, hdrs, ftrs, m) ==
    LET type_bytes  == TypeBytes(m.cls)
        type_header == ToBytes(Len(type_bytes), 2, "big", FALSE).bytes \o type_bytes
        frame(body, hb, fb) ==
          IF ~hb.ok THEN hb
          ELSE IF ~fb.ok THEN fb
          ELSE [ok |-> TRUE, bytes |-> type_header \o hb.bytes \o body.bytes \o fb.bytes,
                err |-> ""]
        wrap(body) ==
          IF ~body.ok THEN Raised(body.err)
          ELSE frame(body, SerializeAutoFields(hdrs, 1, body.bytes, Encoding(m.cls)),
                     SerializeAutoFields(ftrs, 1, body.bytes, Encoding(m.cls)))
    IN IF m.cls \notin registry THEN Raised("ValueError: message type not registered")
       ELSE IF ~validate(m) THEN Raised("ValueError: cannot encode invalid message")
       ELSE wrap(serialize_bytes(m))

\* Protocol._calculate_auto_fields_size
RECURSIVE CalculateAutoFieldsSize(_, _)
CalculateAutoFieldsSize(fields, i) ==
    IF i > Len(fields) THEN 0
    ELSE (IF fields[i].type = "bool" THEN 1 ELSE fields[i].bits \div 8)
         + CalculateAutoFieldsSize(fields, i + 1)

\* Protocol._deserialize_auto_field_value: [value, consumed]
DeserializeAutoFieldValue(data, fs, byteorder) ==
    [value |-> WideFromBytes(Slice(data, 0, fs.bits \div 8), byteorder),
     consumed |-> fs.bits \div 8]

\* the field loop of Protocol._validate_auto_fields: the error raised, or ""
RECURSIVE ValidateAutoLoop(_, _, _, _, _, _)
ValidateAutoLoop(fields, i, field_data, offset, message_bytes, byteorder) ==
    LET compare(d) ==
          IF d.value # ComputeAutoFieldValue(fields[i], message_bytes)
            THEN "ValueError: auto field validation failed"
            ELSE ValidateAutoLoop(fields, i + 1, field_data, offset + d.consumed,
                                  message_bytes, byteorder)
    IN IF i > Len(fields) THEN ""
       ELSE compare(DeserializeAutoFieldValue(Drop(field_data, offset), fields[i], byteorder))

\* Protocol._validate_auto_fields: the expected values are computed from the
\* bytes the decoded message serializes to
ValidateAutoFields(fields, field_data, message) ==
    LET check(again) ==
          IF ~again.ok THEN again.err
          ELSE ValidateAutoLoop(fields, 1, field_data, 0, again.bytes, Encoding(message.cls))
    IN check(serialize_bytes(message))

\* what decode hands back: kind is "None", "Message" or "Invalid" ("Raise"
\* while an exception is still travelling towards the except clause)
NoMsg == [cls |-> "", attrs |-> EmptyAttrs]

\* no decode call has been made for the source yet
NoCall ==
    [kind |-> "NoCall", msg |-> NoMsg, rem |-> <<>>, raw |-> <<>>, error |-> "", ptype |-> ""]

\* the entry of the source has been removed by an explicit clear
Cleared ==
    [kind |-> "Cleared", msg |-> NoMsg, rem |-> <<>>, raw |-> <<>>, error |-> "", ptype |-> ""]

NoneResult ==
    [kind |-> "None", msg |-> NoMsg, rem |-> <<>>, raw |-> <<>>, error |-> "", ptype |-> ""]

MessageResult(m, remaining) ==
    [kind |-> "Message", msg |-> m, rem |-> remaining, raw |-> <<>>, error |-> "", ptype |-> ""]

RaiseResult(e, partial_type) ==
    [kind |-> "Raise", msg |-> NoMsg, rem |-> <<>>, raw |-> <<>>, error |-> e,
     ptype |-> partial_type]

\* an except branch that takes every failing body for an incomplete one
BodyAlwaysLooksIncomplete(message_data_body) == TRUE

\* the except branch of the body deserialization: a failing body shorter
\* than the threshold counts as incomplete
BodyLooksIncomplete(message_data_body) == Len(message_data_body) < IncompleteThreshold

\* the part of the try block of Protocol.decode that follows the body
\* deserialization: footer presence, header and footer validation, remainder
DecodeEnvelope(hdrs, ftrs, data, type_length, type_name, header_size, d) ==
    LET message_data == Drop(data, 2 + type_length)
        footer_size  == IF ftrs # <<>> THEN CalculateAutoFieldsSize(ftrs, 1) ELSE 0
        footer_start == header_size + d.consumed
        total_consumed == 2 + type_length + header_size + d.consumed + footer_size
        finish(hv, fv) ==
          IF hv # "" THEN RaiseResult(hv, type_name)
          ELSE IF fv # "" THEN RaiseResult(fv, type_name)
          ELSE MessageResult(d.msg, Drop(data, total_consumed))
    IN IF Len(message_data) < footer_start + footer_size THEN NoneResult
       ELSE finish(IF header_size > 0
                     THEN ValidateAutoFields(hdrs, Slice(message_data, 0, header_size), d.msg)
                     ELSE "",
                   IF footer_size > 0
                     THEN ValidateAutoFields(ftrs,
                            Slice(message_data, footer_start, footer_start + footer_size),
                            d.msg)
                     ELSE "")

\* the try block of Protocol.decode, applied to the accumulated input
DecodeTry(registry, hdrs, ftrs, data) ==
    LET type_length  == FromBytes(Slice(data, 0, 2), "big", FALSE)
        message_data == Drop(data, 2 + type_length)
        header_size  == IF hdrs # <<>> THEN CalculateAutoFieldsSize(hdrs, 1) ELSE 0
        body         == Drop(message_data, header_size)
        parsed(tn, d) ==
          IF ~d.ok
            THEN IF BodyLooksIncomplete(body) THEN NoneResult
                 ELSE RaiseResult(d.err, tn.name)
          ELSE DecodeEnvelope(hdrs, ftrs, data, type_length, tn.name, header_size, d)
        typed(tn) ==
          IF ~tn.ok THEN RaiseResult(tn.err, "")
          ELSE IF tn.name \notin registry
            THEN RaiseResult("ValueError: unknown message type", tn.name)
          ELSE IF Len(message_data) < header_size THEN NoneResult
          ELSE parsed(tn, deserialize_bytes(tn.name, body))
    IN IF Len(data) < 2 THEN NoneResult
       ELSE IF Len(data) < 2 + type_length THEN NoneResult
       ELSE typed(DecodeTypeName(Slice(data, 2, 2 + type_length)))

\* the `except Exception as e` clause of Protocol.decode
WrapInvalid(r, original_data) ==
    IF r.kind = "Raise"
      THEN [kind |-> "Invalid", msg |-> NoMsg, rem |-> <<>>, raw |-> original_data,
            error |-> r.error, ptype |-> r.ptype]
      ELSE r

\* a first lock section that prepends the buffered bytes and keeps the entry
TakeBufferedKeepsEntry(buffers, data, source_id) ==
    IF source_id \in DOMAIN buffers
      THEN [data |-> buffers[source_id] \o data, buffers |-> buffers]
      ELSE [data |-> data, buffers |-> buffers]

\* a first lock section that puts the buffered bytes behind the new chunk
TakeBufferedAppends(buffers, data, source_id) ==
    IF source_id \in DOMAIN buffers
      THEN [data |-> data \o buffers[source_id],
            buffers |-> [x \in DOMAIN buffers \ {source_id} |-> buffers[x]]]
      ELSE [data |-> data, buffers |-> buffers]

\* the first lock section of Protocol.decode: the buffered bytes of the
\* source are prepended and the entry is deleted
TakeBuffered(buffers, data, source_id) ==
    IF source_id \in DOMAIN buffers
      THEN [data |-> buffers[source_id] \o data,
            buffers |-> [x \in DOMAIN buffers \ {source_id} |-> buffers[x]]]
      ELSE [data |-> data, buffers |-> buffers]

\* a store of the short input that keeps one entry for all sources
StoreIncompleteShared(buffers, data, source_id) ==
    [x \in DOMAIN buffers \cup {"s1"} |-> IF x = "s1" THEN data ELSE buffers[x]]

\* `self._incomplete_buffers[source_id] = data`
StoreIncomplete(buffers, data, source_id) ==
    [x \in DOMAIN buffers \cup {source_id} |-> IF x = source_id THEN data ELSE buffers[x]]

\* Protocol.decode as one sequential call: the value returned and the cache
\* afterwards
decode(buffers, registry, hdrs, ftrs, data, source_id) ==
    LET done(t, r) ==
          [result  |-> r,
           buffers |-> IF r.kind = "None" THEN StoreIncomplete(t.buffers, t.data, source_id)
                       ELSE t.buffers]
        run(t) == done(t, WrapInvalid(DecodeTry(registry, hdrs, ftrs, t.data), t.data))
    IN run(TakeBuffered(buffers, data, source_id))

\* a clear_incomplete_buffer that empties the whole cache
clear_incomplete_buffer_drops_all(buffers, source_id) ==
    [ret |-> source_id \in DOMAIN buffers, buffers |-> EmptyAttrs]

\* Protocol.clear_incomplete_buffer: the value returned and the cache afterwards
clear_incomplete_buffer(buffers, source_id) ==
    IF source_id \in DOMAIN buffers
      THEN [ret |-> TRUE, buffers |-> [x \in DOMAIN buffers \ {source_id} |-> buffers[x]]]
      ELSE [ret |-> FALSE, buffers |-> buffers]

\* Protocol.clear_all_incomplete_buffers
clear_all_incomplete_buffers(buffers) ==
    [ret |-> Cardinality(DOMAIN buffers), buffers |-> EmptyAttrs]

\* Protocol.get_incomplete_buffer_size
get_incomplete_buffer_size(buffers, source_id) ==
    IF source_id \in DOMAIN buffers THEN Len(buffers[source_id]) ELSE 0

\* ------------------------------------------------------------------------
\* The inputs of the model
\* ------------------------------------------------------------------------
\* the classes registered with the protocol (U belongs to the peer only)
Registered == ClassNames \ {"U"}

Sources == {"s1", "s2"}

LongPayload == [i \in 1..MaxPayload |-> 47 + i]

\* message instances whose non-computed fields are set and in range
Msgs ==
    {Construct("S", [value |-> v]) : v \in {1, 2}}
    \cup {Construct("L", [s |-> p]) : p \in {<<>>, <<65>>, LongPayload}}
    \cup {Construct("M", [v |-> 3])}
    \cup {Construct("B", [flag |-> f, v |-> 3]) : f \in BOOLEAN}
    \cup {Construct("D", [xs |-> l]) : l \in {<<>>, <<5>>, <<5, 6>>}}
    \cup {Construct("C", [has_extra |-> FALSE]),
          Construct("C", [has_extra |-> TRUE, extra |-> 258])}
    \cup {Construct("N", [xs |-> <<1, 2>>])}

\* the instances sent as streams
StreamMsgs ==
    {Construct("L", [s |-> LongPayload]), Construct("M", [v |-> 3]),
     Construct("D", [xs |-> <<>>]), Construct("D", [xs |-> <<5>>])}

\* the values a tampered byte is replaced by
TamperVals == {0, 1, 2, 127}

\* what a peer that runs the same protocol configuration puts on the wire
Wire(hdrs, ftrs, m) == encode(ClassNames, hdrs, ftrs, m).bytes

\* 0-based offsets of the body region of encode(m)
BodyStart(hdrs, m) ==
    2 + Len(TypeBytes(m.cls)) + (IF hdrs # <<>> THEN CalculateAutoFieldsSize(hdrs, 1) ELSE 0)

BodyRegion(hdrs, m) ==
    BodyStart(hdrs, m) .. (BodyStart(hdrs, m) + Len(serialize_bytes(m).bytes) - 1)

\* offset of field i inside the serialized body of m
FieldStart(m, i) ==
    LET full == serialize_bytes(m)
    IN Len(full.bytes) - Len(SerializeFrom(m.cls, full.attrs, i, Encoding(m.cls)).bytes)

\* 0-based offsets of the wire bytes of the static fields of encode(m)
StaticRegion(hdrs, m) ==
    {p \in BodyRegion(hdrs, m) :
        \E i \in 1..Len(Fields(m.cls)) :
            /\ Fields(m.cls)[i].hasStatic
            /\ p - BodyStart(hdrs, m) - FieldStart(m, i) \in
                   0..(Fields(m.cls)[i].bits \div 8 - 1)}

\* B with the byte at 0-based offset pos replaced by val
Tamper(B, pos, val) == [i \in 1..Len(B) |-> IF i = pos + 1 THEN val ELSE B[i]]

Idle == [kind |-> "idle", msgs |-> <<>>, bytes |-> <<>>, pos |-> 0, intact |-> FALSE]

\* the list a peer is still sending
GrowingList == Construct("D", [xs |-> <<5, 5, 5>>])

\* the streams a peer may send: one message, two messages back to back, a
\* message with one body byte replaced (the first byte of the length prefix
\* or the first payload byte), a message of a class unknown here, and, with
\* footers configured, a delimiter list whose footers have not been sent
Streams(hdrs, ftrs) ==
    {[kind |-> "one", msgs |-> <<m>>, bytes |-> Wire(hdrs, ftrs, m), pos |-> 0,
      intact |-> TRUE] : m \in StreamMsgs}
    \cup {[kind |-> "two", msgs |-> <<m1, m2>>,
           bytes |-> Wire(hdrs, ftrs, m1) \o Wire(hdrs, ftrs, m2), pos |-> 0,
           intact |-> TRUE] :
             m1 \in {Construct("S", [value |-> 1]), Construct("D", [xs |-> <<5>>])},
             m2 \in {Construct("S", [value |-> 2])}}
    \cup {[kind |-> "tampered", msgs |-> <<Construct("L", [s |-> LongPayload])>>,
           bytes |-> Tamper(Wire(hdrs, ftrs, Construct("L", [s |-> LongPayload])), q, 127),
           pos |-> q, intact |-> TRUE] :
             q \in {BodyStart(hdrs, Construct("L", [s |-> LongPayload])) + d : d \in {0, 4}}}
    \cup {[kind |-> "foreign", msgs |-> <<Construct("U", [v |-> 9])>>,
           bytes |-> Wire(hdrs, ftrs, Construct("U", [v |-> 9])), pos |-> 0,
           intact |-> TRUE]}
    \cup {[kind |-> "unfinished", msgs |-> <<GrowingList>>,
           bytes |-> Slice(Wire(hdrs, ftrs, GrowingList), 0,
                           Len(Wire(hdrs, ftrs, GrowingList))
                               - CalculateAutoFieldsSize(ftrs, 1)),
           pos |-> 0, intact |-> TRUE] : x \in {1} \cap {Len(ftrs)}}

\* the second peer starts a message and stops after its first byte
ShortStreams(hdrs, ftrs) ==
    {[kind |-> "truncated", msgs |-> <<m>>,
      bytes |-> Slice(Wire(hdrs, ftrs, m), 0, 1), pos |-> 0,
      intact |-> TRUE] : m \in {Construct("S", [value |-> 2])}}

PeerStreams(s, hdrs, ftrs) ==
    IF s = "s1" THEN Streams(hdrs, ftrs) ELSE ShortStreams(hdrs, ftrs)

\* ------------------------------------------------------------------------
\* State
\* ------------------------------------------------------------------------
VARIABLES
    message_registry,    \* Protocol._message_registry (the registered names)
    headers,             \* Protocol._headers
    footers,             \* Protocol._footers
    incomplete_buffers,  \* Protocol._incomplete_buffers: source -> bytes
    pending,             \* per source: bytes of the peer's stream not yet read
    sent,                \* per source: the stream the peer sent
    result,              \* per source: what the last decode call returned
                         \* (NoCall before the first, Cleared once an
                         \* explicit clear has removed the source's entry)
    fed,                 \* per source: the chunks passed to decode since the
                         \* last result other than None or the last clear
    calls,               \* per source: decode calls on chunks of the stream
                         \* (0, 1, or 2 for more than one)
    redecodes            \* per source: decode calls on a returned remainder

VARIABLES
    scheduled_messages,  \* the keys of Protocol._scheduled_messages
    next_schedule_id,    \* Protocol._next_schedule_id
    schedule_lock,       \* Protocol._schedule_lock: "free" or the caller holding it
    stop_event,          \* per schedule id: the stop_event of its worker
    worker,              \* per schedule id: where its worker thread stands
    cancel_target,       \* per caller: the id whose thread it is joining, or -1
    cancel_all_queue,    \* cancel_all_scheduled_messages: the ids still to cancel
    cancelled,           \* per schedule id: a cancel of it has returned True
    late_send,           \* per schedule id: send_fn was invoked after that
    faulted,             \* per schedule id: a step of some tick has raised
    tick                 \* per schedule id: whether, in the worker's current
                         \* pass of its loop, update_callback raised and
                         \* send_callback was invoked

VARIABLES
    auto_replies,        \* the keys of Protocol._auto_replies
    next_reply_id,       \* Protocol._next_reply_id
    reply_behaviour,     \* per reply id: what its callbacks do
    check_pc,            \* check_auto_replies: "idle", "run", "done", "raised"
    check_snapshot,      \* its local auto_replies (the ids, in dict order)
    check_pos,           \* the index of the registration it processes next
    replies_sent,        \* its local replies_sent
    delivered            \* the ids whose send callback returned in this call

VARIABLES
    threads,             \* per thread: the method it runs and its program counter
    locks,               \* per lock of Protocol: "free" or the thread holding it
    registries,          \* per protocol: _message_registry, name -> class
    reg_call,            \* per registering thread: its call of Protocol.register
    decoding,            \* per source: the local `data` of a decode call
                         \* between its lock sections
    racing,              \* per thread decoding source s1: the local `data`
                         \* of its call between the lock sections, and the
                         \* number of bytes its results have returned
    received_messages,   \* Server._received_messages / Client._received_messages:
                         \* per source, the items put on the queue
    sample,              \* the input handed to a codec function
    returned             \* what the function returned or raised

protoVars == <<message_registry, headers, footers, incomplete_buffers>>

envVars == <<pending, sent, result, fed, calls, redecodes>>

schedVars == <<scheduled_messages, next_schedule_id, schedule_lock, stop_event, worker,
               cancel_target, cancel_all_queue, cancelled, late_send, faulted, tick>>

replyVars == <<auto_replies, next_reply_id, reply_behaviour, check_pc, check_snapshot,
               check_pos, replies_sent, delivered>>

appVars == <<schedVars, replyVars>>

streamVars == <<protoVars, envVars>>

threadVars == <<threads, locks, registries, reg_call, decoding, racing, received_messages>>

codecVars == <<sample, returned>>

extVars == <<threadVars, codecVars>>

vars == <<protoVars, envVars, schedVars, replyVars, extVars>>

ScheduleIds == 0..(MaxSchedules - 1)

ReplyIds == 0..(MaxReplies - 1)

\* the threads that call cancel_scheduled_message and
\* cancel_all_scheduled_messages
Callers == {"one", "all"}

\* ------------------------------------------------------------------------
\* Threads and locks: every method of Protocol as the sequence of its lock
\* operations, accesses to shared structures and user callbacks
\* ------------------------------------------------------------------------
\* the locks Protocol.__init__ creates
LockNames == {"buffer", "header", "footer", "schedule", "reply"}

\* the lock that protects a shared structure; the registry has no lock among
\* the locks of Protocol
LockOf(structure) ==
    CASE structure = "incomplete_buffers" -> "buffer"
      [] structure = "headers" -> "header"
      [] structure = "footers" -> "footer"
      [] structure = "scheduled_messages" -> "schedule"
      [] structure = "auto_replies" -> "reply"
      [] structure = "message_registry" -> "registry"

\* one instruction of a method
Ins(op, arg) == [op |-> op, arg |-> arg]

\* `with lock: <access>`
Locked(lock, access) == << Ins("acquire", lock), access, Ins("release", lock) >>

\* Protocol.encode: registry lookup, header and footer sections
EncodeProgram ==
    << Ins("read", "message_registry") >>
    \o Locked("header", Ins("read", "headers"))
    \o Locked("footer", Ins("read", "footers"))

\* check_auto_replies with the loop run inside the lock section, over the
\* table itself
CheckHoldingLock ==
    << Ins("acquire", "reply"), Ins("iterate", "auto_replies"),
       Ins("call", "condition"), Ins("call", "update") >>
    \o EncodeProgram
    \o << Ins("call", "send"), Ins("release", "reply") >>

\* Protocol.check_auto_replies: the snapshot is taken inside the lock
\* section, the loop over it runs the callbacks after the release
CheckProgram ==
    Locked("reply", Ins("snapshot", "auto_replies"))
    \o << Ins("iterate", "snapshot"),
          Ins("call", "condition"), Ins("call", "update") >>
    \o EncodeProgram
    \o << Ins("call", "send") >>

\* the methods of Protocol (and the worker of a schedule), by name
Program(method) ==
    CASE method = "register" ->
           << Ins("read", "message_registry"), Ins("mutate", "message_registry") >>
      [] method = "set_headers" -> Locked("header", Ins("mutate", "headers"))
      [] method = "set_footers" -> Locked("footer", Ins("mutate", "footers"))
      [] method = "encode" -> EncodeProgram
      [] method = "decode" ->
           Locked("buffer", Ins("mutate", "incomplete_buffers"))
           \o << Ins("read", "message_registry") >>
           \o Locked("header", Ins("read", "headers"))
           \o Locked("footer", Ins("read", "footers"))
           \o Locked("buffer", Ins("mutate", "incomplete_buffers"))
      [] method = "clear_incomplete_buffer" ->
           Locked("buffer", Ins("mutate", "incomplete_buffers"))
      [] method = "schedule_message" ->
           Locked("schedule", Ins("mutate", "scheduled_messages"))
      [] method = "worker" ->
           << Ins("call", "update") >> \o EncodeProgram \o << Ins("call", "send") >>
      [] method = "cancel_scheduled_message" ->
           << Ins("acquire", "schedule"), Ins("read", "scheduled_messages"),
              Ins("join", "worker"), Ins("mutate", "scheduled_messages"),
              Ins("release", "schedule") >>
      [] method = "cancel_all_scheduled_messages" ->
           Locked("schedule", Ins("snapshot", "scheduled_messages"))
           \o << Ins("iterate", "snapshot"),
                 Ins("acquire", "schedule"), Ins("read", "scheduled_messages"),
                 Ins("join", "worker"), Ins("mutate", "scheduled_messages"),
                 Ins("release", "schedule") >>
      [] method = "register_auto_reply" ->
           Locked("reply", Ins("mutate", "auto_replies"))
      [] method = "unregister_auto_reply" ->
           Locked("reply", Ins("mutate", "auto_replies"))
      [] method = "check_auto_replies" -> CheckProgram
      [] OTHER -> <<>>

Methods ==
    {"register", "set_headers", "set_footers", "encode", "decode",
     "clear_incomplete_buffer", "schedule_message", "worker",
     "cancel_scheduled_message", "cancel_all_scheduled_messages",
     "register_auto_reply", "unregister_auto_reply", "check_auto_replies"}

ThreadIds == {"t1", "t2"}

IdleThread == [method |-> "idle", pc |-> 1]

\* the instruction thread t executes next
At(t) ==
    IF threads[t].pc <= Len(Program(threads[t].method))
      THEN Program(threads[t].method)[threads[t].pc]
      ELSE Ins("return", "")

\* thread t holds lock l
Holds(t, l) == l \in DOMAIN locks /\ locks[l] = t

\* the protocols of the model and the threads that call register
Protocols == {"p1", "p2"}

Registrars == {"r1", "r2"}

NoRegister == [pc |-> "idle", proto |-> "", cls |-> "", dup |-> FALSE, ret |-> ""]

NotDecoding == [active |-> FALSE, data |-> <<>>]

NotRacing == [active |-> FALSE, data |-> <<>>, handed |-> 0]

NoSample == [kind |-> "none"]

NoReturn == [kind |-> "none"]

\* Protocol.__init__: the locks free, the registry empty; no call in progress
InitThreads ==
    /\ threads = [t \in ThreadIds |-> IdleThread]
    /\ locks = [l \in LockNames |-> "free"]
    /\ registries = [p \in Protocols |-> EmptyAttrs]
    /\ reg_call = [r \in Registrars |-> NoRegister]
    /\ decoding = [s \in Sources |-> NotDecoding]
    /\ racing = [t \in ThreadIds |-> NotRacing]
    /\ received_messages = [s \in Sources |-> <<>>]

InitCodec ==
    /\ sample = NoSample
    /\ returned = NoReturn

\* Protocol.__init__: no schedule, no auto-reply, the locks free
NewTick == [update_raised |-> FALSE, sent |-> FALSE]

InitSchedules ==
    /\ scheduled_messages = {}
    /\ next_schedule_id = 0
    /\ schedule_lock = "free"
    /\ stop_event = [h \in ScheduleIds |-> FALSE]
    /\ worker = [h \in ScheduleIds |-> "none"]
    /\ cancel_target = [c \in Callers |-> -1]
    /\ cancel_all_queue = <<>>
    /\ cancelled = [h \in ScheduleIds |-> FALSE]
    /\ late_send = [h \in ScheduleIds |-> FALSE]
    /\ faulted = [h \in ScheduleIds |-> FALSE]
    /\ tick = [h \in ScheduleIds |-> NewTick]

InitReplies ==
    /\ auto_replies = {}
    /\ next_reply_id = 0
    /\ reply_behaviour = [r \in ReplyIds |-> "none"]
    /\ check_pc = "idle"
    /\ check_snapshot = <<>>
    /\ check_pos = 1
    /\ replies_sent = 0
    /\ delivered = {}

\* Protocol.__init__, with the message classes registered
Init ==
    /\ message_registry = Registered
    /\ headers = <<>>
    /\ footers = <<>>
    /\ incomplete_buffers = EmptyAttrs
    /\ pending = [s \in Sources |-> <<>>]
    /\ sent = [s \in Sources |-> Idle]
    /\ result = [s \in Sources |-> NoCall]
    /\ fed = [s \in Sources |-> <<>>]
    /\ calls = [s \in Sources |-> 0]
    /\ redecodes = [s \in Sources |-> 0]
    /\ InitSchedules
    /\ InitReplies
    /\ InitThreads
    /\ InitCodec

\* no peer has sent anything yet
NoTraffic == \A s \in Sources : sent[s].kind = "idle"

\* Protocol.set_headers, called before any traffic
set_headers(h) ==
    /\ NoTraffic
    /\ headers' = h
    /\ UNCHANGED <<message_registry, footers, incomplete_buffers, envVars>>
    /\ UNCHANGED <<appVars, extVars>>

\* Protocol.set_footers, called before any traffic
set_footers(f) ==
    /\ NoTraffic
    /\ footers' = f
    /\ UNCHANGED <<message_registry, headers, incomplete_buffers, envVars>>
    /\ UNCHANGED <<appVars, extVars>>

\* a peer puts its stream on the connection of source s; each peer sends
\* one stream, s2 first, and the transport reads one stream after the other
Send(s, w) ==
    /\ sent[s].kind = "idle"
    /\ \A t \in Sources : pending[t] = <<>>
    /\ s = "s1" => sent["s2"].kind # "idle"
    /\ pending' = [pending EXCEPT ![s] = w.bytes]
    /\ sent' = [sent EXCEPT ![s] = [w EXCEPT !.intact = s \notin DOMAIN incomplete_buffers]]
    /\ calls' = [calls EXCEPT ![s] = 0]
    /\ redecodes' = [redecodes EXCEPT ![s] = 0]
    /\ UNCHANGED <<protoVars, result, fed>>
    /\ UNCHANGED <<appVars, extVars>>

\* the effect of one call decode(data, s) on the protocol and on the history
DecodeCall(s, data) ==
    LET effect(r) ==
          /\ incomplete_buffers' = r.buffers
          /\ result' = [result EXCEPT ![s] = r.result]
          /\ fed' = [fed EXCEPT ![s] =
                       (IF result[s].kind = "None" THEN fed[s] ELSE <<>>) \o data]
    IN effect(decode(incomplete_buffers, message_registry, headers, footers, data, s))

\* the transport reads the next k bytes of the stream and passes them to decode
Decode(s, k) ==
    /\ pending[s] # <<>>
    /\ k \in 1..Len(pending[s])
    /\ DecodeCall(s, SubSeq(pending[s], 1, k))
    /\ pending' = [pending EXCEPT ![s] = Drop(pending[s], k)]
    /\ calls' = [calls EXCEPT ![s] = Min(calls[s] + 1, 2)]
    /\ UNCHANGED <<message_registry, headers, footers, sent, redecodes>>
    /\ UNCHANGED <<appVars, extVars>>

\* the caller passes the remainder of the last result to decode again
Redecode(s) ==
    /\ result[s].kind = "Message"
    /\ result[s].rem # <<>>
    /\ DecodeCall(s, result[s].rem)
    /\ redecodes' = [redecodes EXCEPT ![s] = redecodes[s] + 1]
    /\ UNCHANGED <<message_registry, headers, footers, pending, sent, calls>>
    /\ UNCHANGED <<appVars, extVars>>

\* Protocol.clear_incomplete_buffer(s)
ClearIncompleteBuffer(s) ==
    LET c == clear_incomplete_buffer(incomplete_buffers, s)
    IN /\ incomplete_buffers' = c.buffers
       /\ result' = [result EXCEPT ![s] = IF c.ret THEN Cleared ELSE result[s]]
       /\ fed' = [fed EXCEPT ![s] = IF c.ret THEN <<>> ELSE fed[s]]
       /\ sent' = [sent EXCEPT ![s].intact = sent[s].intact /\ ~c.ret]
       /\ UNCHANGED <<message_registry, headers, footers, pending, calls, redecodes>>
       /\ UNCHANGED <<appVars, extVars>>

\* Protocol.clear_all_incomplete_buffers()
ClearAllIncompleteBuffers ==
    LET c == clear_all_incomplete_buffers(incomplete_buffers)
        had(s) == s \in DOMAIN incomplete_buffers
    IN /\ incomplete_buffers' = c.buffers
       /\ result' = [s \in Sources |-> IF had(s) THEN Cleared ELSE result[s]]
       /\ fed' = [s \in Sources |-> IF had(s) THEN <<>> ELSE fed[s]]
       /\ sent' = [s \in Sources |-> [sent[s] EXCEPT !.intact = sent[s].intact /\ ~had(s)]]
       /\ UNCHANGED <<message_registry, headers, footers, pending, calls, redecodes>>
       /\ UNCHANGED <<appVars, extVars>>

Next ==
    \/ \E h \in {SizeHeader} : set_headers(h)
    \/ \E f \in {CrcFooter} : set_footers(f)
    \/ \E s \in Sources : \E w \in PeerStreams(s, headers, footers) : Send(s, w)
    \/ \E s \in Sources : \E k \in 1..Len(pending[s]) : Decode(s, k)
    \/ \E s \in Sources : Redecode(s)
    \/ \E s \in Sources : ClearIncompleteBuffer(s)
    \/ ClearAllIncompleteBuffers

Spec == Init /\ [][Next]_vars

\* ------------------------------------------------------------------------
\* The clear calls and what they return: short chunks fill the cache, the
\* application clears one source or all
\* ------------------------------------------------------------------------
\* the parity of the number of clear calls made so far
NextCall == IF "call" \in DOMAIN returned THEN 1 - returned.call ELSE 0

\* decode(<<b>>, s) on a cache entry of fewer than MaxCached bytes
DecodeShort(s, b) ==
    /\ s \in DOMAIN incomplete_buffers => Len(incomplete_buffers[s]) < MaxCached
    /\ DecodeCall(s, <<b>>)
    /\ UNCHANGED <<message_registry, headers, footers, pending, sent, calls, redecodes>>
    /\ UNCHANGED <<appVars, extVars>>

\* clear_incomplete_buffer(s), the call and its return value recorded
ClearCall(s) ==
    LET c == clear_incomplete_buffer(incomplete_buffers, s)
    IN /\ incomplete_buffers' = c.buffers
       /\ returned' = [kind |-> "clear_incomplete_buffer", source |-> s,
                       cleared |-> c.ret, call |-> NextCall]
       /\ result' = [result EXCEPT ![s] = IF c.ret THEN Cleared ELSE result[s]]
       /\ fed' = [fed EXCEPT ![s] = IF c.ret THEN <<>> ELSE fed[s]]
       /\ UNCHANGED <<message_registry, headers, footers, pending, sent, calls, redecodes>>
       /\ UNCHANGED <<appVars, threadVars, sample>>

\* clear_all_incomplete_buffers(), the call and its return value recorded
ClearAllCall ==
    LET c == clear_all_incomplete_buffers(incomplete_buffers)
        had(s) == s \in DOMAIN incomplete_buffers
    IN /\ incomplete_buffers' = c.buffers
       /\ returned' = [kind |-> "clear_all_incomplete_buffers", count |-> c.ret,
                       call |-> NextCall]
       /\ result' = [s \in Sources |-> IF had(s) THEN Cleared ELSE result[s]]
       /\ fed' = [s \in Sources |-> IF had(s) THEN <<>> ELSE fed[s]]
       /\ UNCHANGED <<message_registry, headers, footers, pending, sent, calls, redecodes>>
       /\ UNCHANGED <<appVars, threadVars, sample>>

ClearNext ==
    \/ \E s \in Sources : \E b \in {0, 1} : DecodeShort(s, b)
    \/ \E s \in Sources : ClearCall(s)
    \/ ClearAllCall

ClearSpec == Init /\ [][ClearNext]_vars

\* ------------------------------------------------------------------------
\* One message over the wire: encode, optional corruption of one body byte,
\* decode of the whole buffer
\* ------------------------------------------------------------------------
\* a configured protocol and a message instance handed to encode
WireInit ==
    /\ message_registry = Registered
    /\ headers \in {<<>>, SizeHeader}
    /\ footers \in {<<>>, CrcFooter}
    /\ incomplete_buffers = EmptyAttrs
    /\ pending = [s \in Sources |-> <<>>]
    /\ sent \in {[s \in Sources |->
                    IF s = "s1"
                      THEN [kind |-> "round", msgs |-> <<m>>, bytes |-> <<>>, pos |-> 0,
                            intact |-> TRUE]
                      ELSE Idle] : m \in Msgs}
    /\ result = [s \in Sources |-> NoCall]
    /\ fed = [s \in Sources |-> <<>>]
    /\ calls = [s \in Sources |-> 0]
    /\ redecodes = [s \in Sources |-> 0]
    /\ InitSchedules
    /\ InitReplies
    /\ InitThreads
    /\ InitCodec

\* Protocol.encode(m): the bytes go onto the connection of source s
EncodeMessage(s) ==
    /\ sent[s].kind = "round"
    /\ sent[s].bytes = <<>>
    /\ encode(message_registry, headers, footers, sent[s].msgs[1]).ok
    /\ sent' = [sent EXCEPT ![s].bytes =
                  encode(message_registry, headers, footers, sent[s].msgs[1]).bytes]
    /\ pending' = [pending EXCEPT ![s] = sent'[s].bytes]
    /\ UNCHANGED <<protoVars, result, fed, calls, redecodes>>
    /\ UNCHANGED <<appVars, extVars>>

\* the channel replaces the body byte at offset q by another value
Corrupt(s, q, val) ==
    /\ sent[s].kind = "round"
    /\ pending[s] # <<>>
    /\ q \in BodyRegion(headers, sent[s].msgs[1])
    /\ pending[s][q + 1] # val
    /\ pending' = [pending EXCEPT ![s] = Tamper(pending[s], q, val)]
    /\ sent' = [sent EXCEPT ![s].kind = "tampered", ![s].pos = q, ![s].bytes = pending'[s]]
    /\ UNCHANGED <<protoVars, result, fed, calls, redecodes>>
    /\ UNCHANGED <<appVars, extVars>>

WireNext ==
    \/ EncodeMessage("s1")
    \/ \E q \in 0..(Len(pending["s1"]) - 1) : \E val \in TamperVals : Corrupt("s1", q, val)
    \/ Decode("s1", Len(pending["s1"]))

WireSpec == WireInit /\ [][WireNext]_vars

\* ------------------------------------------------------------------------
\* Scheduled messages (Protocol.schedule_message and its worker threads)
\* ------------------------------------------------------------------------
\* the message a schedule is given, and the states the application's
\* callbacks may leave it in: complete, or with its field deleted
ScheduledMsgs == {Construct("S", [value |-> 1]), Construct("S", EmptyAttrs)}

\* Protocol.validate_message
validate_message(m) == validate(m)

\* what a call of schedule_message was given and what it returned or raised
ScheduleCall(m, interval, err, handle) ==
    [kind |-> "schedule_message", interval |-> interval, valid |-> validate_message(m),
     err |-> err, handle |-> handle]

\* a schedule_message that does not advance the id counter
schedule_message_reuses_id(m, interval) ==
    /\ schedule_lock = "free"
    /\ next_schedule_id < MaxSchedules
    /\ interval > 0
    /\ validate_message(m)
    /\ scheduled_messages' = scheduled_messages \cup {next_schedule_id}
    /\ stop_event' = [stop_event EXCEPT ![next_schedule_id] = FALSE]
    /\ worker' = [worker EXCEPT ![next_schedule_id] = "loop"]
    /\ returned' = ScheduleCall(m, interval, "", next_schedule_id)
    /\ UNCHANGED <<next_schedule_id, schedule_lock, cancel_target, cancel_all_queue,
                   cancelled, late_send, faulted, tick>>
    /\ UNCHANGED <<streamVars, replyVars, threadVars, sample>>

\* a schedule_message without the check of the interval
schedule_message_unchecked(m, interval) ==
    /\ schedule_lock = "free"
    /\ next_schedule_id < MaxSchedules
    /\ IF ~validate_message(m)
         THEN /\ returned' = ScheduleCall(m, interval,
                                          "ValueError: Cannot schedule invalid message", -1)
              /\ UNCHANGED <<scheduled_messages, next_schedule_id, stop_event, worker>>
         ELSE /\ scheduled_messages' = scheduled_messages \cup {next_schedule_id}
              /\ next_schedule_id' = next_schedule_id + 1
              /\ stop_event' = [stop_event EXCEPT ![next_schedule_id] = FALSE]
              /\ worker' = [worker EXCEPT ![next_schedule_id] = "loop"]
              /\ returned' = ScheduleCall(m, interval, "", next_schedule_id)
    /\ UNCHANGED <<schedule_lock, cancel_target, cancel_all_queue, cancelled, late_send,
                   faulted, tick>>
    /\ UNCHANGED <<streamVars, replyVars, threadVars, sample>>

\* Protocol.schedule_message(msg, interval, send_callback, update_callback):
\* the two checks raise ValueError; otherwise, under the lock, the id is
\* taken, the worker thread started, the table entry stored and the id
\* returned
schedule_message(m, interval) ==
    /\ schedule_lock = "free"
    /\ next_schedule_id < MaxSchedules
    /\ IF interval <= 0
         THEN /\ returned' = ScheduleCall(m, interval,
                                          "ValueError: Interval must be positive", -1)
              /\ UNCHANGED <<scheduled_messages, next_schedule_id, stop_event, worker>>
         ELSE IF ~validate_message(m)
         THEN /\ returned' = ScheduleCall(m, interval,
                                          "ValueError: Cannot schedule invalid message", -1)
              /\ UNCHANGED <<scheduled_messages, next_schedule_id, stop_event, worker>>
         ELSE /\ scheduled_messages' = scheduled_messages \cup {next_schedule_id}
              /\ next_schedule_id' = next_schedule_id + 1
              /\ stop_event' = [stop_event EXCEPT ![next_schedule_id] = FALSE]
              /\ worker' = [worker EXCEPT ![next_schedule_id] = "loop"]
              /\ returned' = ScheduleCall(m, interval, "", next_schedule_id)
    /\ UNCHANGED <<schedule_lock, cancel_target, cancel_all_queue, cancelled, late_send,
                   faulted, tick>>
    /\ UNCHANGED <<streamVars, replyVars, threadVars, sample>>

\* what the rest of the scheduler leaves alone while a worker steps
WorkerFrame ==
    /\ UNCHANGED <<scheduled_messages, next_schedule_id, schedule_lock, stop_event,
                   cancel_target, cancel_all_queue, cancelled>>
    /\ UNCHANGED <<streamVars, replyVars, extVars>>

\* a tick whose except clause is missing: the exception ends the thread
TickRaisedKillsWorker(h) ==
    /\ worker' = [worker EXCEPT ![h] = "dead"]
    /\ faulted' = [faulted EXCEPT ![h] = TRUE]

\* `except Exception as e: print(...)`: the tick is over, the worker goes
\* on to stop_event.wait(interval)
TickRaised(h) ==
    /\ worker' = [worker EXCEPT ![h] = "wait"]
    /\ faulted' = [faulted EXCEPT ![h] = TRUE]

\* `while not stop_event.is_set():`
WorkerLoop(h) ==
    /\ worker[h] = "loop"
    /\ worker' = [worker EXCEPT ![h] = IF stop_event[h] THEN "done" ELSE "update"]
    /\ tick' = [tick EXCEPT ![h] = NewTick]
    /\ UNCHANGED <<late_send, faulted>>
    /\ WorkerFrame

\* an update step whose exception is caught around the update alone: the
\* pass goes on to encode and send
WorkerUpdateThenSends(h, raises) ==
    /\ worker[h] = "update"
    /\ worker' = [worker EXCEPT ![h] = "encode"]
    /\ faulted' = [faulted EXCEPT ![h] = faulted[h] \/ raises]
    /\ tick' = [tick EXCEPT ![h].update_raised = raises]
    /\ UNCHANGED late_send
    /\ WorkerFrame

\* `update_callback(msg)`, which returns or raises
WorkerUpdate(h, raises) ==
    /\ worker[h] = "update"
    /\ IF raises THEN TickRaised(h)
       ELSE worker' = [worker EXCEPT ![h] = "encode"] /\ UNCHANGED faulted
    /\ tick' = [tick EXCEPT ![h].update_raised = raises]
    /\ UNCHANGED late_send
    /\ WorkerFrame

\* `encoded_data = self.encode(msg)`, msg being in state m at that moment
WorkerEncode(h, m) ==
    /\ worker[h] = "encode"
    /\ IF ~encode(message_registry, headers, footers, m).ok THEN TickRaised(h)
       ELSE worker' = [worker EXCEPT ![h] = "send"] /\ UNCHANGED faulted
    /\ UNCHANGED <<late_send, tick>>
    /\ WorkerFrame

\* `send_callback(encoded_data)`, which returns or raises
WorkerSend(h, raises) ==
    /\ worker[h] = "send"
    /\ late_send' = [late_send EXCEPT ![h] = late_send[h] \/ cancelled[h]]
    /\ tick' = [tick EXCEPT ![h].sent = TRUE]
    /\ IF raises THEN TickRaised(h)
       ELSE worker' = [worker EXCEPT ![h] = "wait"] /\ UNCHANGED faulted
    /\ WorkerFrame

\* `stop_event.wait(interval)` returns: the interval is over or the event set
WorkerWait(h) ==
    /\ worker[h] = "wait"
    /\ worker' = [worker EXCEPT ![h] = "loop"]
    /\ UNCHANGED <<late_send, faulted, tick>>
    /\ WorkerFrame

\* the next step of the worker thread of schedule h
WorkerStep(h) ==
    \/ WorkerLoop(h)
    \/ \E raises \in BOOLEAN : WorkerUpdate(h, raises)
    \/ \E m \in ScheduledMsgs : WorkerEncode(h, m)
    \/ \E raises \in BOOLEAN : WorkerSend(h, raises)
    \/ WorkerWait(h)

\* the caller has no call of cancel_scheduled_message in progress and, for
\* cancel_all, h is the next id of its list
MayCancel(c, h) ==
    /\ cancel_target[c] = -1
    /\ IF c = "all" THEN cancel_all_queue # <<>> /\ h = Head(cancel_all_queue)
       ELSE TRUE

\* Protocol.cancel_scheduled_message(h) up to the join: the lock is taken;
\* an unknown id returns False; otherwise the stop event is set
CancelBegin(c, h) ==
    /\ MayCancel(c, h)
    /\ schedule_lock = "free"
    /\ IF h \notin scheduled_messages
         THEN /\ cancel_all_queue' = IF c = "all" THEN Tail(cancel_all_queue)
                                     ELSE cancel_all_queue
              /\ UNCHANGED <<schedule_lock, stop_event, cancel_target>>
         ELSE /\ schedule_lock' = c
              /\ stop_event' = [stop_event EXCEPT ![h] = TRUE]
              /\ cancel_target' = [cancel_target EXCEPT ![c] = h]
              /\ UNCHANGED cancel_all_queue
    /\ UNCHANGED <<scheduled_messages, next_schedule_id, worker, cancelled, late_send,
                   faulted, tick>>
    /\ UNCHANGED <<streamVars, replyVars, extVars>>

\* `thread.join(timeout=1.0)` returns, because the thread has ended or
\* because the second is over; the entry is deleted, True is returned and
\* the lock released
CancelReturn(c) ==
    /\ cancel_target[c] # -1
    /\ scheduled_messages' = scheduled_messages \ {cancel_target[c]}
    /\ cancelled' = [cancelled EXCEPT ![cancel_target[c]] = TRUE]
    /\ cancel_target' = [cancel_target EXCEPT ![c] = -1]
    /\ schedule_lock' = "free"
    /\ cancel_all_queue' = IF c = "all" THEN Tail(cancel_all_queue) ELSE cancel_all_queue
    /\ UNCHANGED <<next_schedule_id, stop_event, worker, late_send, faulted, tick>>
    /\ UNCHANGED <<streamVars, replyVars, extVars>>

\* the ids of a set taken from the newest entry back to the oldest
RECURSIVE Descending(_)
Descending(ids) ==
    IF ids = {} THEN <<>>
    ELSE LET most == CHOOSE x \in ids : \A y \in ids : x >= y
         IN <<most>> \o Descending(ids \ {most})

\* the ids of a set in ascending order (the key order of the dict)
RECURSIVE Ascending(_)
Ascending(ids) ==
    IF ids = {} THEN <<>>
    ELSE LET least == CHOOSE x \in ids : \A y \in ids : x <= y
         IN <<least>> \o Ascending(ids \ {least})


\* a cancel_all_scheduled_messages that sets every stop event before it
\* joins the first thread
CancelAllBeginSignalsAll ==
    /\ cancel_all_queue = <<>>
    /\ cancel_target["all"] = -1
    /\ schedule_lock = "free"
    /\ cancel_all_queue' = Ascending(scheduled_messages)
    /\ stop_event' = [h \in ScheduleIds |-> stop_event[h] \/ h \in scheduled_messages]
    /\ UNCHANGED <<scheduled_messages, next_schedule_id, schedule_lock, worker,
                   cancel_target, cancelled, late_send, faulted, tick>>
    /\ UNCHANGED <<streamVars, replyVars, extVars>>

\* Protocol.cancel_all_scheduled_messages: the ids are listed under the
\* lock; they are then cancelled one after the other
CancelAllBegin ==
    /\ cancel_all_queue = <<>>
    /\ cancel_target["all"] = -1
    /\ schedule_lock = "free"
    /\ cancel_all_queue' = Ascending(scheduled_messages)
    /\ UNCHANGED <<scheduled_messages, next_schedule_id, schedule_lock, stop_event, worker,
                   cancel_target, cancelled, late_send, faulted, tick>>
    /\ UNCHANGED <<streamVars, replyVars, extVars>>

SchedNext ==
    \/ \E m \in ScheduledMsgs : \E interval \in {-1, 0, 1} : schedule_message(m, interval)
    \/ \E h \in ScheduleIds : WorkerStep(h)
    \/ \E c \in Callers : \E h \in ScheduleIds : CancelBegin(c, h)
    \/ \E c \in Callers : CancelReturn(c)
    \/ CancelAllBegin

SchedSpec == Init /\ [][SchedNext]_vars

\* ------------------------------------------------------------------------
\* Automatic replies (Protocol.register_auto_reply, check_auto_replies)
\* ------------------------------------------------------------------------
\* what the callbacks of a registration do when check_auto_replies runs
\* them: the condition returns False, the condition raises, the update
\* callback raises, the update callback leaves the reply without its field,
\* the send callback raises, or every step succeeds
Behaviours ==
    {"skips", "condition_raises", "update_raises", "update_breaks", "send_raises", "fires"}

\* reply_info["reply_msg"] when it is encoded
ReplyMsg(b) ==
    IF b = "update_breaks" THEN Construct("S", EmptyAttrs) ELSE Construct("S", [value |-> 1])

\* Protocol.register_auto_reply: an invalid reply message raises
\* ValueError; otherwise the registration is stored under the next id
register_auto_reply(b, m) ==
    /\ next_reply_id < MaxReplies
    /\ IF ~validate_message(m)
         THEN UNCHANGED <<auto_replies, next_reply_id, reply_behaviour>>
         ELSE /\ auto_replies' = auto_replies \cup {next_reply_id}
              /\ reply_behaviour' = [reply_behaviour EXCEPT ![next_reply_id] = b]
              /\ next_reply_id' = next_reply_id + 1
    /\ UNCHANGED <<check_pc, check_snapshot, check_pos, replies_sent, delivered>>
    /\ UNCHANGED <<streamVars, schedVars, extVars>>

\* Protocol.unregister_auto_reply
unregister_auto_reply(r) ==
    /\ auto_replies' = auto_replies \ {r}
    /\ UNCHANGED <<next_reply_id, reply_behaviour, check_pc, check_snapshot, check_pos,
                   replies_sent, delivered>>
    /\ UNCHANGED <<streamVars, schedVars, extVars>>

\* check_auto_replies up to its loop: `replies_sent = 0` and the snapshot
\* `list(self._auto_replies.items())` taken under the lock
CheckBegin ==
    /\ check_pc \in {"idle", "done"}
    /\ check_pc' = "run"
    /\ check_snapshot' = Ascending(auto_replies)
    /\ check_pos' = 1
    /\ replies_sent' = 0
    /\ delivered' = {}
    /\ UNCHANGED <<auto_replies, next_reply_id, reply_behaviour>>
    /\ UNCHANGED <<streamVars, schedVars, extVars>>

\* a try block that counts the reply before it calls the send callback
TryReplyCountsFirst(b) ==
    IF b = "skips" THEN "skipped"
    ELSE IF b \in {"condition_raises", "update_raises"} THEN "raised"
    ELSE IF ~encode(message_registry, headers, footers, ReplyMsg(b)).ok THEN "raised"
    ELSE "sent"

\* the outcome of the try block for a registration of behaviour b:
\* "skipped", "sent" or "raised"
TryReply(b) ==
    IF b = "skips" THEN "skipped"
    ELSE IF b \in {"condition_raises", "update_raises"} THEN "raised"
    ELSE IF ~encode(message_registry, headers, footers, ReplyMsg(b)).ok THEN "raised"
    ELSE IF b = "send_raises" THEN "raised"
    ELSE "sent"

\* a loop without the except clause: the exception leaves check_auto_replies
ReplyRaisedPropagates(pos) == [pc |-> "raised", pos |-> pos]

\* `except Exception as e: print(...)`: the loop goes on with the next
\* registration
ReplyRaised(pos) == [pc |-> "run", pos |-> pos + 1]

\* one iteration of `for reply_id, reply_info in auto_replies:`
CheckOne ==
    /\ check_pc = "run"
    /\ check_pos <= Len(check_snapshot)
    /\ LET r == check_snapshot[check_pos]
           outcome == TryReply(reply_behaviour[r])
       IN IF outcome = "raised"
            THEN /\ check_pc' = ReplyRaised(check_pos).pc
                 /\ check_pos' = ReplyRaised(check_pos).pos
                 /\ UNCHANGED <<replies_sent, delivered>>
            ELSE /\ check_pos' = check_pos + 1
                 /\ replies_sent' = IF outcome = "sent" THEN replies_sent + 1
                                    ELSE replies_sent
                 /\ delivered' = IF outcome = "sent" THEN delivered \cup {r} ELSE delivered
                 /\ UNCHANGED check_pc
    /\ UNCHANGED <<auto_replies, next_reply_id, reply_behaviour, check_snapshot>>
    /\ UNCHANGED <<streamVars, schedVars, extVars>>

\* `return replies_sent`
CheckReturn ==
    /\ check_pc = "run"
    /\ check_pos > Len(check_snapshot)
    /\ check_pc' = "done"
    /\ UNCHANGED <<auto_replies, next_reply_id, reply_behaviour, check_snapshot, check_pos,
                   replies_sent, delivered>>
    /\ UNCHANGED <<streamVars, schedVars, extVars>>

ReplyNext ==
    \/ \E b \in Behaviours : \E m \in ScheduledMsgs : register_auto_reply(b, m)
    \/ \E r \in ReplyIds : unregister_auto_reply(r)
    \/ CheckBegin
    \/ CheckOne
    \/ CheckReturn

ReplySpec == Init /\ [][ReplyNext]_vars

\* ------------------------------------------------------------------------
\* Two threads running methods of one Protocol, one instruction at a time
\* ------------------------------------------------------------------------
\* thread t calls a method
Start(t, m) ==
    /\ threads[t].method = "idle"
    /\ threads' = [threads EXCEPT ![t] = [method |-> m, pc |-> 1]]
    /\ UNCHANGED <<locks, registries, reg_call, decoding, racing, received_messages>>
    /\ UNCHANGED <<streamVars, appVars, codecVars>>

\* thread t executes its next instruction: an acquire waits for the lock,
\* a join returns when the worker ends or the second is over
Step(t) ==
    /\ threads[t].method # "idle"
    /\ At(t).op = "acquire" => locks[At(t).arg] = "free"
    /\ locks' = CASE At(t).op = "acquire" -> [locks EXCEPT ![At(t).arg] = t]
                  [] At(t).op = "release" -> [locks EXCEPT ![At(t).arg] = "free"]
                  [] OTHER -> locks
    /\ threads' = [threads EXCEPT ![t] =
                     IF At(t).op = "return" THEN IdleThread
                     ELSE [threads[t] EXCEPT !.pc = threads[t].pc + 1]]
    /\ UNCHANGED <<registries, reg_call, decoding, racing, received_messages>>
    /\ UNCHANGED <<streamVars, appVars, codecVars>>

LockNext ==
    \/ \E t \in ThreadIds : \E m \in Methods : Start(t, m)
    \/ \E t \in ThreadIds : Step(t)

LockSpec == Init /\ [][LockNext]_vars

\* ------------------------------------------------------------------------
\* Concurrent decode calls, one thread per source: the first lock section
\* of Protocol.decode and the rest of the call are separate steps
\* ------------------------------------------------------------------------
\* what the peers send while the threads decode concurrently
ConcStreams ==
    {[kind |-> "one", msgs |-> <<m>>, bytes |-> Wire(headers, footers, m), pos |-> 0,
      intact |-> TRUE] : m \in {Construct("S", [value |-> 1]), Construct("M", [v |-> 3])}}

\* a peer puts its stream on the connection of source s
ConcSend(s, w) ==
    /\ sent[s].kind = "idle"
    /\ pending' = [pending EXCEPT ![s] = w.bytes]
    /\ sent' = [sent EXCEPT ![s] = w]
    /\ UNCHANGED <<protoVars, result, fed, calls, redecodes>>
    /\ UNCHANGED <<appVars, extVars>>

\* the thread of source s calls decode with the next k bytes and leaves the
\* first lock section: the buffered bytes are prepended, the entry deleted
DecodeEnter(s, k) ==
    LET enter(t) ==
          /\ incomplete_buffers' = t.buffers
          /\ decoding' = [decoding EXCEPT ![s] = [active |-> TRUE, data |-> t.data]]
    IN /\ ~decoding[s].active
       /\ pending[s] # <<>>
       /\ k \in 1..Len(pending[s])
       /\ enter(TakeBuffered(incomplete_buffers, SubSeq(pending[s], 1, k), s))
       /\ fed' = [fed EXCEPT ![s] = (IF result[s].kind = "None" THEN fed[s] ELSE <<>>)
                                      \o SubSeq(pending[s], 1, k)]
       /\ pending' = [pending EXCEPT ![s] = Drop(pending[s], k)]
       /\ calls' = [calls EXCEPT ![s] = Min(calls[s] + 1, 2)]
       /\ UNCHANGED <<message_registry, headers, footers, sent, result, redecodes>>
       /\ UNCHANGED <<appVars, threads, locks, registries, reg_call, racing, received_messages, codecVars>>

\* the rest of the call: the try block, and the store of a short input
\* inside the buffer lock
DecodeExit(s) ==
    LET exit(r) ==
          /\ result' = [result EXCEPT ![s] = r]
          /\ incomplete_buffers' =
                 IF r.kind = "None"
                   THEN StoreIncomplete(incomplete_buffers, decoding[s].data, s)
                   ELSE incomplete_buffers
    IN /\ decoding[s].active
       /\ exit(WrapInvalid(DecodeTry(message_registry, headers, footers, decoding[s].data),
                           decoding[s].data))
       /\ decoding' = [decoding EXCEPT ![s] = NotDecoding]
       /\ UNCHANGED <<message_registry, headers, footers, pending, sent, fed, calls,
                      redecodes>>
       /\ UNCHANGED <<appVars, threads, locks, registries, reg_call, racing, received_messages, codecVars>>

ConcNext ==
    \/ \E s \in Sources : \E w \in ConcStreams : ConcSend(s, w)
    \/ \E s \in Sources : \E k \in 1..Len(pending[s]) : DecodeEnter(s, k)
    \/ \E s \in Sources : DecodeExit(s)

ConcSpec == Init /\ [][ConcNext]_vars

\* ------------------------------------------------------------------------
\* Two threads calling decode with the same source_id on the chunks of one
\* stream, in the order the chunks were read
\* ------------------------------------------------------------------------
\* the source both threads decode for
RaceSource == "s1"

\* thread t calls decode with the next k bytes and leaves the first lock
\* section: the buffered bytes are prepended, the entry deleted
RaceEnter(t, k) ==
    LET enter(b) ==
          /\ incomplete_buffers' = b.buffers
          /\ racing' = [racing EXCEPT ![t].active = TRUE, ![t].data = b.data]
    IN /\ ~racing[t].active
       /\ pending[RaceSource] # <<>>
       /\ k \in 1..Len(pending[RaceSource])
       /\ enter(TakeBuffered(incomplete_buffers, SubSeq(pending[RaceSource], 1, k),
                             RaceSource))
       /\ pending' = [pending EXCEPT ![RaceSource] = Drop(pending[RaceSource], k)]
       /\ UNCHANGED <<message_registry, headers, footers, sent, result, fed, calls,
                      redecodes>>
       /\ UNCHANGED <<appVars, threads, locks, registries, reg_call, decoding,
                      received_messages, codecVars>>

\* the rest of the call of thread t: the try block, and the store of a
\* short input inside the buffer lock; a result other than None hands the
\* bytes the call worked on to the caller (message and remainder, or the
\* raw data of an InvalidMessage)
RaceExit(t) ==
    LET exit(r) ==
          /\ result' = [result EXCEPT ![RaceSource] = r]
          /\ incomplete_buffers' =
                 IF r.kind = "None"
                   THEN StoreIncomplete(incomplete_buffers, racing[t].data, RaceSource)
                   ELSE incomplete_buffers
          /\ racing' = [racing EXCEPT
                          ![t].active = FALSE,
                          ![t].data = <<>>,
                          ![t].handed = IF r.kind = "None" THEN racing[t].handed
                                        ELSE racing[t].handed + Len(racing[t].data)]
    IN /\ racing[t].active
       /\ exit(WrapInvalid(DecodeTry(message_registry, headers, footers, racing[t].data),
                           racing[t].data))
       /\ UNCHANGED <<message_registry, headers, footers, pending, sent, fed, calls,
                      redecodes>>
       /\ UNCHANGED <<appVars, threads, locks, registries, reg_call, decoding,
                      received_messages, codecVars>>

RaceNext ==
    \/ \E w \in ConcStreams : ConcSend(RaceSource, w)
    \/ \E t \in ThreadIds : \E k \in 1..Len(pending[RaceSource]) : RaceEnter(t, k)
    \/ \E t \in ThreadIds : RaceExit(t)

RaceSpec == Init /\ [][RaceNext]_vars

\* ------------------------------------------------------------------------
\* Server and Client: the transport hands each chunk it has read to
\* Server._handle_raw_data or to the body of Client._receive_loop (no
\* auto-reply registered, no message_handler)
\* ------------------------------------------------------------------------
\* the connection the server reads and the connection the client reads
ServerSource == "s1"

ClientSource == "s2"

\* what the peers send: one message, or two back to back
ReceiveStreams ==
    {[kind |-> "one", msgs |-> <<m>>, bytes |-> Wire(headers, footers, m), pos |-> 0,
      intact |-> TRUE] : m \in {Construct("S", [value |-> 1])}}
    \cup {[kind |-> "two", msgs |-> <<m1, m2>>,
           bytes |-> Wire(headers, footers, m1) \o Wire(headers, footers, m2), pos |-> 0,
           intact |-> TRUE] :
             m1 \in {Construct("S", [value |-> 1])},
             m2 \in {Construct("S", [value |-> 2]), Construct("M", [v |-> 3])}}

\* _received_messages.put
Put(queue, s, kind, msg) ==
    [queue EXCEPT ![s] = Append(queue[s], [kind |-> kind, msg |-> msg])]

\* Server._handle_raw_data(data, address) on the next k bytes of the
\* connection of source s: None puts nothing on the queue; an
\* InvalidMessage is put on the queue and the buffer cleared; a message
\* that does not validate is put as InvalidMessage; a valid message is put
\* on the queue after the buffer is cleared. `remaining` is not used.
HandleRawData(s, k) ==
    LET data == SubSeq(pending[s], 1, k)
        handled(r) ==
          /\ result' = [result EXCEPT ![s] = r.result]
          /\ incomplete_buffers' =
                 IF r.result.kind = "None"
                      \/ (r.result.kind = "Message" /\ ~validate_message(r.result.msg))
                   THEN r.buffers
                   ELSE clear_incomplete_buffer(r.buffers, s).buffers
          /\ received_messages' =
                 CASE r.result.kind = "None"    -> received_messages
                   [] r.result.kind = "Invalid" ->
                        Put(received_messages, s, "Invalid", r.result.msg)
                   [] OTHER ->
                        IF ~validate_message(r.result.msg)
                          THEN Put(received_messages, s, "Invalid", NoMsg)
                          ELSE Put(received_messages, s, "Message", r.result.msg)
    IN /\ s = ServerSource
       /\ pending[s] # <<>>
       /\ k \in 1..Len(pending[s])
       /\ handled(decode(incomplete_buffers, message_registry, headers, footers, data, s))
       /\ fed' = [fed EXCEPT ![s] = (IF result[s].kind = "None" THEN fed[s] ELSE <<>>) \o data]
       /\ pending' = [pending EXCEPT ![s] = Drop(pending[s], k)]
       /\ calls' = [calls EXCEPT ![s] = Min(calls[s] + 1, 2)]
       /\ UNCHANGED <<message_registry, headers, footers, sent, redecodes>>
       /\ UNCHANGED <<appVars, threads, locks, registries, reg_call, decoding, racing,
                      codecVars>>

\* one pass of the loop of Client._receive_loop on the next k bytes read:
\* None puts nothing on the queue; an InvalidMessage or a message is put
\* on the queue and the buffer cleared. `remaining` is not used.
ReceiveLoop(s, k) ==
    LET data == SubSeq(pending[s], 1, k)
        handled(r) ==
          /\ result' = [result EXCEPT ![s] = r.result]
          /\ incomplete_buffers' =
                 IF r.result.kind = "None" THEN r.buffers
                 ELSE clear_incomplete_buffer(r.buffers, s).buffers
          /\ received_messages' =
                 IF r.result.kind = "None" THEN received_messages
                 ELSE Put(received_messages, s, r.result.kind, r.result.msg)
    IN /\ s = ClientSource
       /\ pending[s] # <<>>
       /\ k \in 1..Len(pending[s])
       /\ handled(decode(incomplete_buffers, message_registry, headers, footers, data, s))
       /\ fed' = [fed EXCEPT ![s] = (IF result[s].kind = "None" THEN fed[s] ELSE <<>>) \o data]
       /\ pending' = [pending EXCEPT ![s] = Drop(pending[s], k)]
       /\ calls' = [calls EXCEPT ![s] = Min(calls[s] + 1, 2)]
       /\ UNCHANGED <<message_registry, headers, footers, sent, redecodes>>
       /\ UNCHANGED <<appVars, threads, locks, registries, reg_call, decoding, racing,
                      codecVars>>

ReceiveNext ==
    \/ \E s \in Sources : \E w \in ReceiveStreams : ConcSend(s, w)
    \/ \E s \in Sources : \E k \in 1..Len(pending[s]) : HandleRawData(s, k)
    \/ \E s \in Sources : \E k \in 1..Len(pending[s]) : ReceiveLoop(s, k)

ReceiveSpec == Init /\ [][ReceiveNext]_vars

\* ------------------------------------------------------------------------
\* Registration: threads calling Protocol.register on two protocols
\* ------------------------------------------------------------------------
\* class objects; A1 and A2 are two classes with the same __name__
ClassObjects == {"A1", "A2", "B1"}

\* message_class.__name__
NameOf(c) == IF c \in {"A1", "A2"} THEN "A" ELSE "B"

\* a register whose membership test never finds the name
RegisterOverwrites(r, p, c) ==
    /\ reg_call[r].pc \in {"idle", "done"}
    /\ reg_call' = [reg_call EXCEPT ![r] =
                      [pc |-> "store", proto |-> p, cls |-> c,
                       dup |-> NameOf(c) \in DOMAIN registries[p], ret |-> ""]]
    /\ UNCHANGED <<registries, threads, locks, decoding, racing, received_messages>>
    /\ UNCHANGED <<streamVars, appVars, codecVars>>

\* Protocol.register up to the store: `if message_type in
\* self._message_registry: raise ValueError(...)`
RegisterCheck(r, p, c) ==
    /\ reg_call[r].pc \in {"idle", "done"}
    /\ reg_call' = [reg_call EXCEPT ![r] =
                      IF NameOf(c) \in DOMAIN registries[p]
                        THEN [pc |-> "done", proto |-> p, cls |-> c, dup |-> TRUE,
                              ret |-> "ValueError"]
                        ELSE [pc |-> "store", proto |-> p, cls |-> c, dup |-> FALSE,
                              ret |-> ""]]
    /\ UNCHANGED <<registries, threads, locks, decoding, racing, received_messages>>
    /\ UNCHANGED <<streamVars, appVars, codecVars>>

\* `self._message_registry[message_type] = message_class; return message_class`
RegisterStore(r) ==
    /\ reg_call[r].pc = "store"
    /\ registries' = [registries EXCEPT ![reg_call[r].proto] =
                        SetAttr(registries[reg_call[r].proto], NameOf(reg_call[r].cls),
                                reg_call[r].cls)]
    /\ reg_call' = [reg_call EXCEPT ![r].pc = "done", ![r].ret = "ok"]
    /\ UNCHANGED <<threads, locks, decoding, racing, received_messages>>
    /\ UNCHANGED <<streamVars, appVars, codecVars>>

RegNext ==
    \/ \E r \in Registrars : \E p \in Protocols : \E c \in ClassObjects : RegisterCheck(r, p, c)
    \/ \E r \in Registrars : RegisterStore(r)

RegSpec == Init /\ [][RegNext]_vars

\* ------------------------------------------------------------------------
\* The codec alone: one instance is serialized, the bytes are deserialized
\* ------------------------------------------------------------------------
\* instances of the classes with a conditional field
ConditionalSamples ==
    {[kind |-> "message", msg |-> Construct("C", kw)] :
        kw \in {[has_extra |-> h] : h \in BOOLEAN}
               \cup {[has_extra |-> h, extra |-> e] : h \in BOOLEAN, e \in {0, 999, 65535}}}
    \cup {[kind |-> "message", msg |-> Construct("K", [has_extra |-> h, basic |-> b])] :
            h \in BOOLEAN, b \in {5, 170}}

\* instances of the class with a deep assignment into its header
DeepSamples ==
    {[kind |-> "message",
      msg |-> Construct("T", [header |-> [cls |-> "H",
                                          attrs |-> [version |-> 1, payload_length |-> n]],
                              payload |-> b])] :
        n \in {0, 1, 2}, b \in {<<>>, <<7>>, <<7, 8>>}}

\* the kinds of field of a bit-packed layout: unsigned bit fields of 1, 6
\* and 8 bits, a signed bit field of 4 bits, a list of two 3-bit fields and
\* the byte-aligned uint(8)
BitKinds == {"b1", "b6", "b8", "s4", "b3x2", "u8"}

BitFieldNames == <<"f1", "f2", "f3", "f4">>

LayoutField(kind, i) ==
    CASE kind = "b1"   -> F(BitFieldNames[i], "bit", 1)
      [] kind = "b6"   -> F(BitFieldNames[i], "bit", 6)
      [] kind = "b8"   -> F(BitFieldNames[i], "bit", 8)
      [] kind = "s4"   -> [F(BitFieldNames[i], "bit", 4) EXCEPT !.signed = TRUE]
      [] kind = "b3x2" -> [F(BitFieldNames[i], "bit", 3) EXCEPT !.array = "numlist",
                                                                !.numlist = 2]
      [] kind = "u8"   -> F(BitFieldNames[i], "uint", 8)

\* the value of field i under a pattern: all zeros, the largest values, or
\* 1, 0, 30, 5 by position (reduced to the field's width)
LayoutValue(kind, pattern, i) ==
    LET v == IF pattern = "zeros" THEN 0
             ELSE IF pattern = "highs" THEN 255
             ELSE <<1, 0, 30, 5>>[i]
    IN CASE kind = "b1"   -> v % 2
         [] kind = "b6"   -> v % 64
         [] kind = "b8"   -> v
         [] kind = "s4"   -> IF pattern = "mixed" THEN 0 - 3 ELSE v % 8
         [] kind = "b3x2" -> <<v % 8, (v + 1) % 8>>
         [] kind = "u8"   -> 7

\* the layouts of at most MaxBitFields fields with at least one bit field
BitLayouts ==
    {l \in UNION {[1..n -> BitKinds] : n \in 1..MaxBitFields} :
        \E i \in 1..Len(l) : l[i] # "u8"}

\* an instance of the owner's class with the layout's fields
BitSample(o, l, pat) ==
    [kind |-> "bits", owner |-> o,
     fields |-> [i \in 1..Len(l) |-> LayoutField(l[i], i)],
     attrs |-> [n \in {BitFieldNames[i] : i \in 1..Len(l)} |->
                  LayoutValue(l[CHOOSE i \in 1..Len(l) : BitFieldNames[i] = n], pat,
                              CHOOSE i \in 1..Len(l) : BitFieldNames[i] = n)]]

Samples == ConditionalSamples \cup DeepSamples

CodecInit ==
    /\ message_registry = Registered
    /\ headers = <<>>
    /\ footers = <<>>
    /\ incomplete_buffers = EmptyAttrs
    /\ pending = [s \in Sources |-> <<>>]
    /\ sent = [s \in Sources |-> Idle]
    /\ result = [s \in Sources |-> NoCall]
    /\ fed = [s \in Sources |-> <<>>]
    /\ calls = [s \in Sources |-> 0]
    /\ redecodes = [s \in Sources |-> 0]
    /\ InitSchedules
    /\ InitReplies
    /\ InitThreads
    /\ \/ sample \in Samples
       \/ \E o \in {"partial", "message"} : \E l \in BitLayouts :
              \E pat \in {"zeros", "highs", "mixed"} : sample = BitSample(o, l, pat)
    /\ returned = NoReturn

\* serialized = msg.serialize_bytes()
SerializeMessage ==
    /\ sample.kind = "message"
    /\ returned = NoReturn
    /\ returned' = [kind |-> "encoded", enc |-> serialize_bytes(sample.msg)]
    /\ UNCHANGED <<sample, threadVars, streamVars, appVars>>

\* decoded, consumed = cls.deserialize_bytes(serialized)
DeserializeMessage ==
    /\ sample.kind = "message"
    /\ returned.kind = "encoded"
    /\ returned.enc.ok
    /\ returned' = [kind |-> "decoded", enc |-> returned.enc,
                    dec |-> deserialize_bytes(sample.msg.cls, returned.enc.bytes)]
    /\ UNCHANGED <<sample, threadVars, streamVars, appVars>>

\* serialize_bytes of an instance whose class has a bit field
SerializeBits ==
    /\ sample.kind = "bits"
    /\ returned = NoReturn
    /\ HasBitwiseFields(sample.fields)
    /\ returned' = [kind |-> "packed",
                    enc |-> IF sample.owner = "message"
                              THEN MessageSerializeBitwise(sample.fields, sample.attrs)
                              ELSE PartialSerializeBitwise(sample.fields, sample.attrs)]
    /\ UNCHANGED <<sample, threadVars, streamVars, appVars>>

\* deserialize_bytes of the class on the serialized bytes, or on bytes of
\* all ones when serializing raised
DeserializeBits ==
    /\ sample.kind = "bits"
    /\ returned.kind = "packed"
    /\ HasBitwiseFields(sample.fields)
    /\ LET data == IF returned.enc.ok THEN returned.enc.bytes
                   ELSE [i \in 1..Len(sample.fields) |-> 255]
       IN returned' = [kind |-> "unpacked", enc |-> returned.enc,
                       dec |-> IF sample.owner = "message"
                                 THEN MessageDeserializeBitwise(sample.fields, data)
                                 ELSE PartialDeserializeBitwise(sample.fields, data)]
    /\ UNCHANGED <<sample, threadVars, streamVars, appVars>>

CodecNext ==
    \/ SerializeMessage
    \/ DeserializeMessage
    \/ SerializeBits
    \/ DeserializeBits

CodecSpec == CodecInit /\ [][CodecNext]_vars

\* ------------------------------------------------------------------------
\* Claims about the stream decoder (Spec)
\* ------------------------------------------------------------------------
\* the decoded message d carries the class and every attribute of m
SameMessage(d, m) ==
    /\ d.cls = m.cls
    /\ \A n \in DOMAIN m.attrs : n \in DOMAIN d.attrs /\ d.attrs[n] = m.attrs[n]

\* the decode calls on source s so far were fed chunks of an untouched
\* stream: the cache held nothing for s when the stream began, nothing was
\* cleared since, and no remainder was decoded again
Chunked(s) ==
    /\ sent[s].intact
    /\ calls[s] >= 1
    /\ redecodes[s] = 0
    /\ result[s].kind # "Cleared"

\* C1: for a registered message m and any split of encode(m) into chunks
\* fed in order to decode with one source_id, every call before the last
\* chunk returns None and the call that delivers the last chunk returns
\* (m, empty remainder).
ReassemblyIdentity ==
    \A s \in Sources :
        (sent[s].kind = "one" /\ Chunked(s)) =>
            IF pending[s] # <<>>
              THEN result[s].kind = "None"
              ELSE /\ result[s].kind = "Message"
                   /\ SameMessage(result[s].msg, sent[s].msgs[1])
                   /\ result[s].rem = <<>>

\* C2: an entry of the incomplete-buffer cache exists for a source exactly
\* after a decode for it came up short, holding everything fed since the
\* entry was created; after decode returned a Message or an InvalidMessage,
\* and after an explicit clear, the cache holds no entry for the source.
BufferEntryLifecycle ==
    \A s \in Sources :
        /\ result[s].kind \in {"Message", "Invalid", "Cleared", "NoCall"} =>
               s \notin DOMAIN incomplete_buffers
        /\ result[s].kind = "None" =>
               s \in DOMAIN incomplete_buffers /\ incomplete_buffers[s] = fed[s]

\* C2 witness: a source whose entry was created by a short decode and then
\* deleted by the decode that completed the message, while the other
\* source has an entry
BufferEntryDeleted ==
    \E s \in Sources :
        /\ calls[s] = 2 /\ Chunked(s)
        /\ result[s].kind = "Message"
        /\ Len(fed[s]) = Len(sent[s].bytes)
        /\ s \notin DOMAIN incomplete_buffers
        /\ DOMAIN incomplete_buffers # {}

\* C7: decoding encode(m1) + encode(m2) returns (m1, encode(m2)), and
\* decoding that remainder with the same source_id returns (m2, empty).
RemainderAfterMessage ==
    \A s \in Sources :
        (sent[s].kind = "two" /\ sent[s].intact /\ calls[s] = 1 /\ pending[s] = <<>>
           /\ result[s].kind # "Cleared") =>
            /\ redecodes[s] = 0 =>
                   /\ result[s].kind = "Message"
                   /\ SameMessage(result[s].msg, sent[s].msgs[1])
                   /\ result[s].rem = Wire(headers, footers, sent[s].msgs[2])
            /\ redecodes[s] = 1 =>
                   /\ result[s].kind = "Message"
                   /\ SameMessage(result[s].msg, sent[s].msgs[2])
                   /\ result[s].rem = <<>>

\* ------------------------------------------------------------------------
\* Claims about one message over the wire (WireSpec)
\* ------------------------------------------------------------------------
\* the whole buffer of the message source s was sent has been decoded in
\* one call
DecodedWhole(s) == calls[s] = 1 /\ pending[s] = <<>> /\ fed[s] = sent[s].bytes

\* C3: with a CRC-32 footer computed over the body configured, decoding
\* encode(m) with a single body byte changed returns an InvalidMessage.
TamperDetection ==
    \A s \in Sources :
        (sent[s].kind = "tampered" /\ footers = CrcFooter /\ DecodedWhole(s)) =>
            result[s].kind = "Invalid"

\* C4: decode(encode(m)) returns a message equal to m on every field, with
\* an empty remainder, with and without automatic headers and footers.
RoundTrip ==
    \A s \in Sources :
        (sent[s].kind = "round" /\ DecodedWhole(s)) =>
            /\ result[s].kind = "Message"
            /\ SameMessage(result[s].msg, sent[s].msgs[1])
            /\ result[s].rem = <<>>

\* C5: decoding a buffer whose wire bytes for a static field differ from
\* the field's constant returns an InvalidMessage reporting the mismatch.
StaticEnforcement ==
    \A s \in Sources :
        (sent[s].kind = "tampered" /\ DecodedWhole(s)
           /\ sent[s].pos \in StaticRegion(headers, sent[s].msgs[1])) =>
            /\ result[s].kind = "Invalid"
            /\ result[s].error = "ValueError: expected static value"

\* the body of the buffer source s was sent fails to decode for a reason
\* other than missing bytes: a static field or a delimiter has the wrong value
BodyFormatError(s) ==
    LET m == sent[s].msgs[1]
        d == deserialize_bytes(m.cls, Drop(sent[s].bytes, BodyStart(headers, m)))
    IN /\ ~d.ok
       /\ d.err \in {"ValueError: expected static value", "ValueError: expected delimiter"}

\* C6: decode never raises to its caller; a failure other than an
\* incomplete input, such as a body that fails to decode, is returned as
\* (InvalidMessage, empty remainder), the InvalidMessage carrying the whole
\* accumulated input as raw_data and the raised error.
FailuresReturnedAsInvalid ==
    \A s \in Sources :
        DecodedWhole(s) =>
            /\ result[s].kind # "Raise"
            /\ result[s].kind = "Invalid" =>
                   /\ result[s].rem = <<>>
                   /\ result[s].raw = fed[s]
                   /\ result[s].error # ""
            /\ BodyFormatError(s) => result[s].kind = "Invalid"

\* ------------------------------------------------------------------------
\* Claims about scheduled messages (SchedSpec)
\* ------------------------------------------------------------------------
\* C8: once a cancel of a schedule has returned True (by itself or inside
\* cancel_all), send_fn is never invoked again for it and its handle is no
\* longer in the scheduled-task table.
CancelStopsTimer ==
    \A h \in ScheduleIds :
        cancelled[h] => (~late_send[h] /\ h \notin scheduled_messages)

\* C9: an exception raised by update_fn, encode or send_fn during a tick
\* is caught and the timer continues: until a cancel sets the stop event,
\* the schedule stays registered, its worker thread stays alive and can
\* always take its next step.
TimerSurvivesExceptions ==
    \A h \in ScheduleIds :
        /\ worker[h] # "dead"
        /\ (faulted[h] /\ ~stop_event[h]) =>
               /\ h \in scheduled_messages
               /\ worker[h] \in {"loop", "update", "encode", "send", "wait"}
               /\ ENABLED WorkerStep(h)
        /\ worker[h] = "done" => stop_event[h]

\* C9 witness: a schedule of which an earlier tick raised is about to
\* invoke send_fn on a later tick
FiresAfterException ==
    \E h \in ScheduleIds : faulted[h] /\ ~stop_event[h] /\ worker[h] = "send"

\* ------------------------------------------------------------------------
\* Claims about automatic replies (ReplySpec)
\* ------------------------------------------------------------------------
\* the registrations check_auto_replies has been through in this call
Processed ==
    {check_snapshot[i] : i \in 1..(IF check_pc = "done" THEN Len(check_snapshot)
                                   ELSE check_pos - 1)}

\* C10: within one check_auto_replies call an exception raised by a
\* registration's condition, update or send callback is caught and stops
\* no other registration from firing, and the call itself does not raise:
\* every registration of the snapshot whose callbacks all succeed has had
\* its reply sent when the call returns, and replies_sent counts them.
AutoReplyIsolation ==
    /\ check_pc # "raised"
    /\ \A r \in Processed : reply_behaviour[r] = "fires" => r \in delivered
    /\ check_pc = "done" => Processed = {check_snapshot[i] : i \in 1..Len(check_snapshot)}
    /\ replies_sent = Cardinality(delivered)

\* C10 witness: a call has returned in which a registration raised and a
\* registration after it had its reply sent
FiresAfterRaisingRegistration ==
    /\ check_pc = "done"
    /\ \E i, j \in 1..Len(check_snapshot) :
           /\ i < j
           /\ TryReply(reply_behaviour[check_snapshot[i]]) = "raised"
           /\ check_snapshot[j] \in delivered

\* ------------------------------------------------------------------------
\* Claims about locks (LockSpec)
\* ------------------------------------------------------------------------
\* C11: the incomplete-buffer cache, the message registry, the header and
\* footer specs, the scheduled-task table and the auto-reply table are
\* each mutated only while the lock that protects the structure is held by
\* the mutating thread.
MutationsUnderLock ==
    \A t \in ThreadIds :
        At(t).op = "mutate" => Holds(t, LockOf(At(t).arg))

\* C12: the scheduled-task table and the auto-reply table are iterated
\* over a snapshot taken inside the table's lock section, and a thread that
\* runs a user callback (condition, update, send) holds no lock.
CallbacksOutsideLock ==
    \A t \in ThreadIds :
        /\ At(t).op = "snapshot" => Holds(t, LockOf(At(t).arg))
        /\ At(t).op = "iterate" => At(t).arg = "snapshot"
        /\ At(t).op = "call" => \A l \in LockNames : ~Holds(t, l)

\* C12 witness: check_auto_replies is about to run a send callback while
\* another thread, inside the reply lock, is about to change the table
CallbackDuringMutation ==
    \E t, u \in ThreadIds :
        /\ threads[t].method = "check_auto_replies"
        /\ At(t) = Ins("call", "send")
        /\ threads[u].method = "unregister_auto_reply"
        /\ At(u).op = "mutate"
        /\ Holds(u, "reply")

\* ------------------------------------------------------------------------
\* Claims about concurrent decode calls (ConcSpec)
\* ------------------------------------------------------------------------
\* C13: decode calls with distinct source_ids share no data under any
\* interleaving: what a call works on and what the cache holds for a source
\* are exactly the bytes fed for that source since its last result, and an
\* entry left by a short decode stays until the source's next call.
SourcesIsolated ==
    \A s \in Sources :
        /\ s \in DOMAIN incomplete_buffers => incomplete_buffers[s] = fed[s]
        /\ decoding[s].active =>
               decoding[s].data = fed[s] /\ s \notin DOMAIN incomplete_buffers
        /\ (~decoding[s].active /\ result[s].kind = "None") =>
               s \in DOMAIN incomplete_buffers
        /\ (~decoding[s].active /\ pending[s] = <<>> /\ calls[s] >= 1) =>
               /\ result[s].kind = "Message"
               /\ SameMessage(result[s].msg, sent[s].msgs[1])

\* C13 witness: a call for one source is between its lock sections while
\* the cache holds bytes of the other source, and both have bytes buffered
\* before
InterleavedDecodes ==
    \E s, t \in Sources :
        /\ s # t
        /\ decoding[s].active /\ calls[s] = 2
        /\ t \in DOMAIN incomplete_buffers
        /\ Len(incomplete_buffers[t]) > 2

\* ------------------------------------------------------------------------
\* Claims about registration (RegSpec)
\* ------------------------------------------------------------------------
\* C14: a register call for a class whose name is already in the
\* protocol's registry raises the duplicate-name error and leaves every
\* registry as it is (the first registration is kept); a call for a name
\* the protocol does not have goes on to store the class in that protocol
\* only and returns, whatever the other protocol has registered.
DuplicateRejected ==
    [][\A r \in Registrars :
          reg_call'[r] # reg_call[r] =>
              /\ reg_call[r].pc \in {"idle", "done"} =>
                     /\ reg_call'[r].dup =
                            (NameOf(reg_call'[r].cls) \in DOMAIN registries[reg_call'[r].proto])
                     /\ registries' = registries
                     /\ reg_call'[r].dup =>
                            reg_call'[r].pc = "done" /\ reg_call'[r].ret = "ValueError"
                     /\ ~reg_call'[r].dup => reg_call'[r].pc = "store"
              /\ reg_call[r].pc = "store" =>
                     /\ reg_call'[r].pc = "done" /\ reg_call'[r].ret = "ok"
                     /\ registries'[reg_call[r].proto][NameOf(reg_call[r].cls)] = reg_call[r].cls
                     /\ \A q \in Protocols \ {reg_call[r].proto} :
                            registries'[q] = registries[q]]_vars

\* C14 witness: one class is registered in both protocols and a second
\* registration of its name in one of them has been rejected
RegisteredInBoth ==
    /\ "A" \in DOMAIN registries["p1"] /\ "A" \in DOMAIN registries["p2"]
    /\ registries["p1"]["A"] = registries["p2"]["A"]
    /\ \E r \in Registrars :
           /\ reg_call[r].pc = "done" /\ reg_call[r].dup
           /\ reg_call[r].ret = "ValueError"
           /\ NameOf(reg_call[r].cls) = "A"

\* ------------------------------------------------------------------------
\* Claims about the codec (CodecSpec)
\* ------------------------------------------------------------------------
\* the fields of the instance whose condition is false on the instance
InactiveFields(m) ==
    {i \in 1..Len(Fields(m.cls)) :
        /\ Fields(m.cls)[i].condition # "none"
        /\ ~EvalCondition(Fields(m.cls)[i].condition, m.attrs)}

\* the bytes of the fields of a class other than the given ones (all of
\* them scalars of a fixed width)
WidthWithout(cls, skipped) ==
    LET w(i) == IF i \in skipped THEN 0
                ELSE IF Fields(cls)[i].type = "bool" THEN 1
                ELSE Fields(cls)[i].bits \div 8
        sum[i \in 0..Len(Fields(cls))] == IF i = 0 THEN 0 ELSE sum[i - 1] + w(i)
    IN sum[Len(Fields(cls))]

\* C15: when the predicate of a conditional field is false on an instance,
\* the encoding holds the bytes of the other fields only, decoding it
\* consumes exactly those bytes and the decoded instance has no attribute
\* of the field's name.
ConditionalInvisible ==
    (sample.kind = "message" /\ InactiveFields(sample.msg) # {}) =>
        /\ (returned.kind \in {"encoded", "decoded"} /\ returned.enc.ok) =>
               Len(returned.enc.bytes) = WidthWithout(sample.msg.cls, InactiveFields(sample.msg))
        /\ returned.kind = "decoded" =>
               /\ returned.dec.ok
               /\ returned.dec.consumed = Len(returned.enc.bytes)
               /\ \A i \in InactiveFields(sample.msg) :
                      Fields(sample.msg.cls)[i].name \notin DOMAIN returned.dec.msg.attrs

\* the composite fields of a class that carry a deep assignment
DeepFields(cls) == {i \in 1..Len(Fields(cls)) : Fields(cls)[i].deep_path # ""}

\* C16: for a message whose composite field `header` declares the deep
\* assignment header.payload_length with length_of "payload", encoding
\* succeeds, decoding the encoding succeeds, and the decoded nested value
\* equals the length of the decoded payload.
DeepAssignmentConsistent ==
    (sample.kind = "message" /\ DeepFields(sample.msg.cls) # {}) =>
        /\ returned.kind \in {"encoded", "decoded"} => returned.enc.ok
        /\ returned.kind = "decoded" =>
               /\ returned.dec.ok
               /\ \A i \in DeepFields(sample.msg.cls) :
                      LET fs == Fields(sample.msg.cls)[i]
                      IN returned.dec.msg.attrs[fs.name].attrs[fs.deep_path]
                           = Len(returned.dec.msg.attrs[fs.deep_length_of])

\* the sample has the bit fields a (1 bit) = 1, b (1 bit) = 0, c (6 bits) = 30
FlagsAndCounter ==
    /\ sample.kind = "bits"
    /\ Len(sample.fields) = 3
    /\ \A i \in 1..3 :
           /\ sample.fields[i].type = "bit" /\ sample.fields[i].array = "none"
           /\ ~sample.fields[i].signed
           /\ sample.fields[i].bits = <<1, 1, 6>>[i]
           /\ sample.attrs[sample.fields[i].name] = <<1, 0, 30>>[i]

\* C17: three bit fields a (1 bit) = 1, b (1 bit) = 0 and c (6 bits) = 30
\* serialize to the single byte 0xBE.
SerializesToBE ==
    (FlagsAndCounter /\ returned.kind = "packed") =>
        returned.enc.ok /\ returned.enc.bytes = <<190>>

\* C17 as amended: the three bit fields serialize to the single byte 0x9E
\* (0b10011110: a, then b, then c = 011110).
SerializesTo9E ==
    (FlagsAndCounter /\ returned.kind = "packed") =>
        returned.enc.ok /\ returned.enc.bytes = <<158>>

\* C17 witness: the three fields have been serialized
FlagsAndCounterPacked == FlagsAndCounter /\ returned.kind = "packed"

\* the declared bit width of a layout, a list counted once per element
TotalBits(fields) ==
    LET sum[i \in 0..Len(fields)] ==
          IF i = 0 THEN 0
          ELSE sum[i - 1] + fields[i].bits * (IF fields[i].array = "numlist"
                                                THEN fields[i].numlist ELSE 1)
    IN sum[Len(fields)]

AllBitFields(fields) == \A i \in 1..Len(fields) : fields[i].type = "bit"

\* C18: a layout of bit fields only, of total declared width T, serializes
\* to exactly ceil(T/8) bytes.
BitPackingDensity ==
    (sample.kind = "bits" /\ AllBitFields(sample.fields)
       /\ returned.kind \in {"packed", "unpacked"}) =>
        /\ returned.enc.ok
        /\ Len(returned.enc.bytes) = (TotalBits(sample.fields) + 7) \div 8

\* C18 witness: a serialized layout with a list whose width is not a whole
\* number of bytes
PaddedLayoutPacked ==
    /\ sample.kind = "bits" /\ AllBitFields(sample.fields)
    /\ sample.owner = "partial"
    /\ \E i \in 1..Len(sample.fields) : sample.fields[i].array = "numlist"
    /\ TotalBits(sample.fields) % 8 # 0
    /\ TotalBits(sample.fields) > 8
    /\ returned.kind = "packed"

\* C19: serializing and deserializing a layout that has both bit fields and
\* a byte-aligned field fail with an error, wherever the byte-aligned field
\* stands.
MixingRejected ==
    (sample.kind = "bits" /\ HasBitwiseFields(sample.fields)
       /\ ~AllBitFields(sample.fields)) =>
        /\ returned.kind \in {"packed", "unpacked"} => ~returned.enc.ok
        /\ returned.kind = "unpacked" => ~returned.dec.ok

\* ------------------------------------------------------------------------
\* Claims about the count of automatic replies (ReplySpec)
\* ------------------------------------------------------------------------
\* the registrations of the call's snapshot whose behaviour is one of bs
SnapshotOf(bs) ==
    {i \in 1..Len(check_snapshot) : reply_behaviour[check_snapshot[i]] \in bs}

\* C20: check_auto_replies returns the number of registrations whose
\* condition held and whose reply was encoded and handed to the send
\* callback during the call, whether or not the callback then raised.
CountsRepliesHanded ==
    check_pc = "done" =>
        replies_sent = Cardinality(SnapshotOf({"fires", "send_raises"}))

\* C20 as amended: check_auto_replies returns the number of registrations
\* whose condition held, whose reply was encoded and whose send callback
\* returned without raising during the call.
CountsRepliesSent ==
    check_pc = "done" => replies_sent = Cardinality(SnapshotOf({"fires"}))

\* C20 witness: a call has returned 1 after two replies were handed to
\* their send callbacks, one of which raised
CountedOneOfTwo ==
    /\ check_pc = "done"
    /\ replies_sent = 1
    /\ SnapshotOf({"fires"}) # {}
    /\ SnapshotOf({"send_raises"}) # {}

\* C21: within one check_auto_replies call the registrations that fire do
\* so in the order in which they were registered: a reply is sent only
\* after the replies of all firing registrations registered before it (ids
\* are issued in registration order), and never before an earlier one.
FiresInRegistrationOrder ==
    [][\A r \in delivered' \ delivered :
          /\ \A q \in delivered : q < r
          /\ \A i \in 1..Len(check_snapshot) :
                 (check_snapshot[i] < r /\ reply_behaviour[check_snapshot[i]] = "fires")
                     => check_snapshot[i] \in delivered]_vars

\* C21 witness: two registrations have fired in one call
TwoRepliesFired ==
    /\ check_pc = "done"
    /\ Cardinality(delivered) >= 2

\* ------------------------------------------------------------------------
\* Claims about schedule_message (SchedSpec)
\* ------------------------------------------------------------------------
\* C22: a schedule_message call whose interval is not positive or whose
\* message does not validate raises an error, and that call starts no
\* worker thread, issues no handle and adds no entry to the scheduled-task
\* table; every other call raises nothing.
InvalidScheduleRejected ==
    [][(returned' # returned /\ returned'.kind = "schedule_message") =>
          IF returned'.interval <= 0 \/ ~returned'.valid
            THEN /\ returned'.err # ""
                 /\ returned'.handle = -1
                 /\ worker' = worker
                 /\ next_schedule_id' = next_schedule_id
                 /\ scheduled_messages' = scheduled_messages
            ELSE returned'.err = ""]_vars

\* C22 witness: after a schedule was accepted, a call with a positive
\* interval and an invalid message has been rejected
RejectedAfterAccepted ==
    /\ scheduled_messages # {}
    /\ returned.kind = "schedule_message"
    /\ returned.err # ""
    /\ returned.interval > 0
    /\ ~returned.valid

\* C23: in a pass of a worker's loop in which update_callback raised,
\* send_callback is not invoked, and the worker is not ended by the
\* exception: it waits for the interval and goes back to the head of its
\* loop.
NoSendAfterFailedUpdate ==
    \A h \in ScheduleIds :
        tick[h].update_raised => ~tick[h].sent /\ worker[h] \in {"wait", "loop"}

\* C23 witness: after a pass in which update_callback raised, the worker
\* is back at the head of its loop and has not been told to stop
NextTickAfterFailedUpdate ==
    \E h \in ScheduleIds :
        tick[h].update_raised /\ worker[h] = "loop" /\ ~stop_event[h]

\* C24: every successful schedule_message call, whatever runs beside it,
\* returns a handle no earlier call was given (the handles are the values
\* of a counter that only grows) and adds exactly the entry of that handle
\* to the scheduled-task table; when cancel_all_scheduled_messages has
\* cancelled the last id of its list, no entry that was in the table when
\* it was called is left (the table is empty unless a schedule was added
\* meanwhile).
HandlesUnique ==
    [][/\ next_schedule_id' >= next_schedule_id
       /\ \A h \in scheduled_messages' : h < next_schedule_id'
       /\ (returned' # returned /\ returned'.kind = "schedule_message"
             /\ returned'.err = "") =>
              /\ returned'.handle = next_schedule_id
              /\ next_schedule_id' = next_schedule_id + 1
              /\ returned'.handle \notin scheduled_messages
              /\ scheduled_messages' = scheduled_messages \cup {returned'.handle}
       /\ scheduled_messages' # scheduled_messages /\ next_schedule_id' = next_schedule_id =>
              scheduled_messages' \subseteq scheduled_messages
       /\ (cancel_all_queue # <<>> /\ cancel_all_queue' = <<>>) =>
              \A h \in scheduled_messages' : h > Head(cancel_all_queue)]_vars

\* C24 witness: two schedules were issued, cancel_all has cancelled the
\* first and is joining the thread of the second
CancelAllOnSecondHandle ==
    /\ returned.kind = "schedule_message" /\ returned.handle = 1
    /\ cancelled[0]
    /\ cancel_all_queue = <<1>>
    /\ cancel_target["all"] = 1

\* C25: clear_incomplete_buffer(s) returns True exactly when the cache
\* held an entry for s, removes that entry and leaves the entry of every
\* other source as it was; clear_all_incomplete_buffers returns the number
\* of entries the cache held and leaves the cache empty.
ClearReturnsWhatExisted ==
    [][returned' # returned =>
          /\ returned'.kind = "clear_incomplete_buffer" =>
                /\ returned'.cleared = (returned'.source \in DOMAIN incomplete_buffers)
                /\ DOMAIN incomplete_buffers' = DOMAIN incomplete_buffers \ {returned'.source}
                /\ \A t \in DOMAIN incomplete_buffers' :
                       incomplete_buffers'[t] = incomplete_buffers[t]
          /\ returned'.kind = "clear_all_incomplete_buffers" =>
                /\ returned'.count = Cardinality(DOMAIN incomplete_buffers)
                /\ incomplete_buffers' = EmptyAttrs]_vars

\* C25 witness: the entry of s1 was cleared while s2 keeps its entry
ClearedOneOfTwo ==
    /\ returned.kind = "clear_incomplete_buffer"
    /\ returned.source = "s1" /\ returned.cleared
    /\ "s1" \notin DOMAIN incomplete_buffers
    /\ "s2" \in DOMAIN incomplete_buffers
    /\ result["s1"].kind = "Cleared"

\* C26 as stated: cancel_all_scheduled_messages signals every timer of its
\* list to stop before it waits on any join, so that while it joins one
\* thread every timer still on its list has its stop event set.
CancelAllSignalsFirst ==
    cancel_target["all"] # -1 =>
        \A i \in 1..Len(cancel_all_queue) : stop_event[cancel_all_queue[i]]

\* C26 as the code has it: cancel_all_scheduled_messages cancels the timers
\* of its list one after another; while it joins the thread of one timer,
\* no later timer of the list that is still in the table has been
\* signalled to stop.
CancelAllOneByOne ==
    cancel_target["all"] # -1 =>
        /\ cancel_target["all"] = Head(cancel_all_queue)
        /\ stop_event[Head(cancel_all_queue)]
        /\ \A i \in 2..Len(cancel_all_queue) :
               cancel_all_queue[i] \in scheduled_messages => ~stop_event[cancel_all_queue[i]]

\* C26 witness: cancel_all joins the thread of the first timer while the
\* second, not yet signalled, is about to call send_callback
SecondTimerRunsDuringJoin ==
    /\ cancel_target["all"] = 0
    /\ cancel_all_queue = <<0, 1>>
    /\ 1 \in scheduled_messages /\ ~stop_event[1]
    /\ worker[1] = "send"

\* C27: in sequential use, whenever the last decode of a source returned
\* None, the cache holds for that source the chunks passed to decode since
\* its last result other than None or its last clear, byte for byte in
\* the order of arrival, and get_incomplete_buffer_size reports their
\* total length.
CachedIsFedInOrder ==
    \A s \in Sources :
        result[s].kind = "None" =>
            /\ get_incomplete_buffer_size(incomplete_buffers, s) = Len(fed[s])
            /\ s \in DOMAIN incomplete_buffers
            /\ \A i \in 1..Len(fed[s]) : incomplete_buffers[s][i] = fed[s][i]

\* C27 witness: after a message was returned and its remainder decoded
\* again, two more chunks of the stream came up short and are cached
CachedAfterRemainder ==
    \E s \in Sources :
        /\ result[s].kind = "None"
        /\ redecodes[s] >= 1
        /\ calls[s] = 2
        /\ Len(fed[s]) >= 3
        /\ Len(fed[s]) < Len(sent[s].bytes) - Len(pending[s])

\* the number of bytes of the stream passed to decode so far
BytesPassed == Len(sent[RaceSource].bytes) - Len(pending[RaceSource])

\* the number of bytes the results of both threads have returned
BytesHanded == racing["t1"].handed + racing["t2"].handed

\* C28: when two threads call decode with the same source_id, every byte
\* passed in is part of a returned result or is in the cache once the
\* calls have returned: no chunk is lost or overwritten.
NoChunkLost ==
    (sent[RaceSource].kind # "idle" /\ \A t \in ThreadIds : ~racing[t].active) =>
        BytesHanded + get_incomplete_buffer_size(incomplete_buffers, RaceSource)
            = BytesPassed

\* the accumulated input is shorter than the 2-byte type length, the type
\* name or the headers, or holds fewer than IncompleteThreshold bytes after
\* the headers, or is shorter than the body that deserializes from all the
\* bytes after the headers and the footers behind it
ShortInput(data) ==
    LET type_length == IF Len(data) >= 2 THEN data[1] * 256 + data[2] ELSE 0
        header_size == IF headers # <<>> THEN CalculateAutoFieldsSize(headers, 1) ELSE 0
        footer_size == IF footers # <<>> THEN CalculateAutoFieldsSize(footers, 1) ELSE 0
        after       == Len(data) - 2 - type_length - header_size
        footersShort(d) == d.ok /\ after < d.consumed + footer_size
        known(tn) ==
          /\ tn.ok
          /\ tn.name \in message_registry
          /\ footersShort(deserialize_bytes(tn.name,
                                            Drop(data, 2 + type_length + header_size)))
    IN \/ Len(data) < 2
       \/ Len(data) < 2 + type_length
       \/ after < 0
       \/ after < IncompleteThreshold
       \/ known(DecodeTypeName(Slice(data, 2, 2 + type_length)))

\* the input holds, behind type header and headers, a body that
\* deserializes by itself and room for the footers behind it
HoldsFrame(data) ==
    LET type_length == IF Len(data) >= 2 THEN data[1] * 256 + data[2] ELSE 0
        header_size == IF headers # <<>> THEN CalculateAutoFieldsSize(headers, 1) ELSE 0
        footer_size == IF footers # <<>> THEN CalculateAutoFieldsSize(footers, 1) ELSE 0
        after       == Len(data) - 2 - type_length - header_size
        whole(d, n) == d.ok /\ d.consumed = n
        framed(tn) ==
          /\ tn.ok
          /\ tn.name \in message_registry
          /\ \E n \in 1..(after - footer_size) :
                 whole(deserialize_bytes(tn.name,
                           Slice(data, 2 + type_length + header_size,
                                 2 + type_length + header_size + n)), n)
    IN /\ Len(data) >= 2 + type_length
       /\ after >= footer_size
       /\ framed(DecodeTypeName(Slice(data, 2, 2 + type_length)))

QueueHoldsEveryMessage ==
    \A s \in Sources :
        (sent[s].kind # "idle" /\ pending[s] = <<>>) =>
            /\ Len(received_messages[s]) = Len(sent[s].msgs)
            /\ \A i \in 1..Len(sent[s].msgs) :
                   /\ received_messages[s][i].kind = "Message"
                   /\ SameMessage(received_messages[s][i].msg, sent[s].msgs[i])

====
